---------------------------- MODULE Spec2Model ----------------------------
(***************************************************************************)
(* Model of the retry decorator (src/src/utils/retry.py) and of the audio  *)
(* file storage service (src/src/services/storage.py).                     *)
(*                                                                         *)
(* Strings are sequences of one-character strings, so that Python's        *)
(* substring test (in), startswith, lower and strip are computed on the    *)
(* characters as the code computes them.                                   *)
(***************************************************************************)
EXTENDS Integers, Sequences, FiniteSets, TLC

VARIABLES
    \* ---- retry_with_exponential_backoff: one call through the wrapper ----
    max_attempts,     \* decorator argument max_attempts
    backoff_delays,   \* decorator argument backoff_delays (after the None default)
    pc,               \* "running" | "returned" | "raised": position of the wrapper
    attempt,          \* the for-loop variable of wrapper (0-based)
    last_exception,   \* wrapper's local last_exception
    calls,            \* number of invocations of func made by this call
    sleeps,           \* the durations handed to time.sleep, in order
    log,              \* what func did at each invocation (error raised or value returned)
    result,           \* what wrapper returned (NoValue while it has not returned)
    raised,           \* the exception wrapper let propagate (NoError while none)
    \* ---- StorageService: the filesystem and the caller's current call ----
    fs,               \* the filesystem: [dirs, files, links]
    call,             \* the storage call just made and its outcome (NoCall between calls)
    issued,           \* the identifiers save_audio_file has returned
    used_uuids,       \* the values uuid.uuid4() has produced
    blobs,            \* the source bytes of each identifier save_audio_file returned
                      \* and no delete has removed since
    \* ---- calls in progress at the same time, each with its own locals ----
    threads           \* thread -> the call it runs, its position and its locals

retryVars == <<max_attempts, backoff_delays, pc, attempt, last_exception,
               calls, sleeps, log, result, raised>>

storeVars == <<fs, call, issued, used_uuids, blobs>>

vars == <<retryVars, storeVars, threads>>

-----------------------------------------------------------------------------
(* Bounds of the model *)

\* largest max_attempts a caller passes
MaxAttempts == 5

\* longest identifier string handed to get_audio_file_path / delete_audio_file
\* (the listed longer ones apart)
MaxIdLen == 4

\* longest extension string handed to save_audio_file
MaxExtLen == 3

\* number of save_audio_file calls in one run
MaxSaves == 1

-----------------------------------------------------------------------------
(* Strings *)

UpperChars == <<"A","B","C","D","E","F","G","H","I","J","K","L","M",
                "N","O","P","Q","R","S","T","U","V","W","X","Y","Z">>
LowerChars == <<"a","b","c","d","e","f","g","h","i","j","k","l","m",
                "n","o","p","q","r","s","t","u","v","w","x","y","z">>

\* str.lower() on one character
LowerChar(c) ==
    IF \E i \in DOMAIN UpperChars : UpperChars[i] = c
    THEN LowerChars[CHOOSE i \in DOMAIN UpperChars : UpperChars[i] = c]
    ELSE c

\* str.lower()
Lower(s) == [i \in DOMAIN s |-> LowerChar(s[i])]

\* s.startswith(p)
StartsWith(s, p) == Len(p) <= Len(s) /\ SubSeq(s, 1, Len(p)) = p

\* p in s  (substring test)
Contains(s, p) ==
    \E i \in 1..(Len(s) - Len(p) + 1) : SubSeq(s, i, i + Len(p) - 1) = p


Min(a, b) == IF a <= b THEN a ELSE b

-----------------------------------------------------------------------------
(* Exceptions.  An exception object has its class name (type(e).__name__), *)
(* its message (str(e)) and an identity: id is the number of the func      *)
(* invocation that raised it, 0 for an exception func did not raise.       *)

NoError == [type |-> "none", msg |-> <<>>, id |-> 0]
NoThreads == <<>>
NoValue == "no value"
None    == "None"

\* the message tokens the two classifiers look for
tok_timeout           == <<"t","i","m","e","o","u","t">>
tok_timed_out         == <<"t","i","m","e","d"," ","o","u","t">>
tok_429               == <<"4","2","9">>
tok_rate_limit        == <<"r","a","t","e"," ","l","i","m","i","t">>
tok_connection        == <<"c","o","n","n","e","c","t","i","o","n">>
tok_failed            == <<"f","a","i","l","e","d">>
tok_error             == <<"e","r","r","o","r">>
tok_401               == <<"4","0","1">>
tok_unauthorized      == <<"u","n","a","u","t","h","o","r","i","z","e","d">>
tok_authentication    == <<"a","u","t","h","e","n","t","i","c","a","t","i","o","n">>
tok_400               == <<"4","0","0">>
tok_bad_request       == <<"b","a","d"," ","r","e","q","u","e","s","t">>
tok_invalid_request   == <<"i","n","v","a","l","i","d"," ","r","e","q","u","e","s","t">>
tok_403               == <<"4","0","3">>
tok_forbidden         == <<"f","o","r","b","i","d","d","e","n">>
tok_permission_denied == <<"p","e","r","m","i","s","s","i","o","n"," ","d","e","n","i","e","d">>

\* retry.py: the class names _is_retryable_error recognizes
retryable_errors == {"RateLimitError", "Timeout", "APIError", "APIConnectionError",
                     "ServiceUnavailableError", "InternalServerError"}

\* retry.py: the class names _is_permanent_error recognizes
permanent_errors == {"AuthenticationError", "InvalidRequestError",
                     "PermissionDeniedError", "NotFoundError"}

\* retry.py _is_retryable_error
is_retryable_error(error) ==
    LET error_type    == error.type
        error_message == Lower(error.msg)
    IN  IF error_type \in retryable_errors THEN TRUE
        ELSE IF Contains(error_message, tok_timeout)
                \/ Contains(error_message, tok_timed_out) THEN TRUE
        ELSE IF Contains(error_message, tok_429)
                \/ Contains(error_message, tok_rate_limit) THEN TRUE
        ELSE IF Contains(error_message, tok_connection)
                /\ (Contains(error_message, tok_failed)
                    \/ Contains(error_message, tok_error)) THEN TRUE
        ELSE FALSE

\* retry.py _is_permanent_error
is_permanent_error(error) ==
    LET error_type    == error.type
        error_message == Lower(error.msg)
    IN  IF error_type \in permanent_errors THEN TRUE
        ELSE IF Contains(error_message, tok_401)
                \/ Contains(error_message, tok_unauthorized)
                \/ Contains(error_message, tok_authentication) THEN TRUE
        ELSE IF Contains(error_message, tok_400)
                \/ Contains(error_message, tok_bad_request)
                \/ Contains(error_message, tok_invalid_request) THEN TRUE
        ELSE IF Contains(error_message, tok_403)
                \/ Contains(error_message, tok_forbidden)
                \/ Contains(error_message, tok_permission_denied) THEN TRUE
        ELSE FALSE

-----------------------------------------------------------------------------
(* The wrapped operation: what func may do at one invocation *)

msg_empty            == <<>>
msg_rate_limit       == <<"R","a","t","e"," ","l","i","m","i","t"," ","e","x","c","e","e","d","e","d">>
msg_limit_40000      == <<"L","i","m","i","t"," ","4","0","0","0","0">>
msg_timed_out        == <<"R","e","q","u","e","s","t"," ","t","i","m","e","d"," ","o","u","t">>
msg_connection_error == <<"C","o","n","n","e","c","t","i","o","n"," ","e","r","r","o","r">>
msg_connection_reset == <<"c","o","n","n","e","c","t","i","o","n"," ","r","e","s","e","t">>
msg_401              == <<"4","0","1"," ","U","n","a","u","t","h","o","r","i","z","e","d">>
msg_403_timeout      == <<"4","0","3"," ","t","i","m","e","o","u","t">>
msg_bad_value        == <<"b","a","d"," ","v","a","l","u","e">>
msg_index            == <<"l","i","s","t"," ","i","n","d","e","x"," ","o","u","t"," ","o","f"," ","r","a","n","g","e">>

\* (class name, message) of the exceptions func raises in the model
OpErrors ==
    { <<"RateLimitError", msg_rate_limit>>,
      <<"RateLimitError", msg_limit_40000>>,
      <<"APIError", msg_empty>>,
      <<"InternalServerError", msg_connection_reset>>,
      <<"Exception", msg_timed_out>>,
      <<"Exception", msg_connection_error>>,
      <<"Exception", msg_connection_reset>>,
      <<"Exception", msg_401>>,
      <<"Exception", msg_403_timeout>>,
      <<"ValueError", msg_bad_value>>,
      <<"AuthenticationError", msg_timed_out>>,
      <<"NotFoundError", msg_empty>> }

\* the values func returns in the model
OpValues == {"v1", "v2"}

\* the decorator arguments callers pass: max_attempts (0 and negative included)
\* and backoff_delays (the empty list included; None becomes [1, 2, 4])
default_max_attempts == 3
default_backoff_delays == <<1, 2, 4>>
AttemptsValues == (0 - 1) .. MaxAttempts
DelayLists == { <<>>, default_backoff_delays, <<3>> }

-----------------------------------------------------------------------------
(* retry_with_exponential_backoff.wrapper *)

\* (mutant) the permanent test of lines 62-68 is missing
propagates_without_permanent_test(e) ==
    IF ~ is_retryable_error(e) THEN TRUE ELSE FALSE

\* (mutant) the not-retryable test of lines 70-75 is missing: fail-open
propagates_without_retryable_test(e) ==
    IF is_permanent_error(e) THEN TRUE ELSE FALSE

\* lines 62-75: the exception is re-raised at once (permanent, or not retryable)
propagates_immediately(e) ==
    IF is_permanent_error(e) THEN TRUE
    ELSE IF ~ is_retryable_error(e) THEN TRUE
    ELSE FALSE

\* (mutant) off by one: the attempt just made is counted as remaining
attempts_remaining_off_by_one(att) == max_attempts - att

\* line 78
attempts_remaining(att) == max_attempts - att - 1

\* (mutant) the delay of the next attempt is taken
delay_index_of_next(att) == Min(att + 1, Len(backoff_delays) - 1)

\* (mutant) the schedule wraps around instead of reusing its last entry
delay_index_wrapping(att) ==
    IF Len(backoff_delays) = 0 THEN 0 - 1 ELSE att % Len(backoff_delays)

\* line 82
delay_index(att) == Min(att, Len(backoff_delays) - 1)

\* Python list indexing lst[i]: negative i counts from the end, out of range
\* raises IndexError
IndexInRange(lst, i) == (0 - Len(lst)) <= i /\ i < Len(lst)
ListItem(lst, i) == IF i >= 0 THEN lst[i + 1] ELSE lst[Len(lst) + i + 1]

IndexError == [type |-> "IndexError", msg |-> msg_index, id |-> 0]

RetryInit ==
    /\ max_attempts \in AttemptsValues
    /\ backoff_delays \in DelayLists
    /\ pc = "running"
    /\ attempt = 0
    /\ last_exception = NoError
    /\ calls = 0
    /\ sleeps = <<>>
    /\ log = <<>>
    /\ result = NoValue
    /\ raised = NoError

\* lines 45-56: the loop body runs, func returns v, wrapper returns it
AttemptReturns(v) ==
    /\ pc = "running"
    /\ attempt < max_attempts
    /\ calls' = calls + 1
    /\ log' = Append(log, [kind |-> "return", value |-> v, error |-> NoError])
    /\ result' = v
    /\ pc' = "returned"
    /\ UNCHANGED <<max_attempts, backoff_delays, attempt, last_exception, sleeps, raised>>
    /\ UNCHANGED <<storeVars, threads>>

\* lines 45-48, 58-105: the loop body runs, func raises, wrapper handles it
AttemptRaises(type, msg) ==
    /\ pc = "running"
    /\ attempt < max_attempts
    /\ LET e == [type |-> type, msg |-> msg, id |-> calls + 1] IN
        /\ calls' = calls + 1
        /\ log' = Append(log, [kind |-> "raise", value |-> NoValue, error |-> e])
        /\ last_exception' = e
        /\ IF propagates_immediately(e)
           THEN /\ pc' = "raised"
                /\ raised' = e
                /\ UNCHANGED <<attempt, sleeps>>
           ELSE IF attempts_remaining(attempt) > 0
           THEN IF IndexInRange(backoff_delays, delay_index(attempt))
                THEN /\ sleeps' = Append(sleeps, ListItem(backoff_delays, delay_index(attempt)))
                     /\ attempt' = attempt + 1
                     /\ UNCHANGED <<pc, raised>>
                ELSE /\ pc' = "raised"
                     /\ raised' = IndexError
                     /\ UNCHANGED <<attempt, sleeps>>
           ELSE /\ pc' = "raised"
                /\ raised' = e
                /\ UNCHANGED <<attempt, sleeps>>
    /\ UNCHANGED <<max_attempts, backoff_delays, result>>
    /\ UNCHANGED <<storeVars, threads>>

\* lines 45, 107-111: the loop is over without a return or a raise
LoopExhausted ==
    /\ pc = "running"
    /\ attempt >= max_attempts
    /\ IF last_exception # NoError
       THEN /\ pc' = "raised"
            /\ raised' = last_exception
            /\ UNCHANGED result
       ELSE /\ pc' = "returned"
            /\ result' = None
            /\ UNCHANGED raised
    /\ UNCHANGED <<max_attempts, backoff_delays, attempt, last_exception, calls, sleeps, log>>
    /\ UNCHANGED <<storeVars, threads>>

RetryNext ==
    \/ \E v \in OpValues : AttemptReturns(v)
    \/ \E err \in OpErrors : AttemptRaises(err[1], err[2])
    \/ LoopExhausted

-----------------------------------------------------------------------------
(* Properties of the Backoff Policy *)

\* the outcome classes of one attempt, in the order the wrapper tests them
\* (the two classifiers tabulated over the exceptions func raises)
PermanentTable ==
    [err \in OpErrors |-> is_permanent_error([type |-> err[1], msg |-> err[2], id |-> 0])]
RetryableTable ==
    [err \in OpErrors |-> is_retryable_error([type |-> err[1], msg |-> err[2], id |-> 0])]
ClassifiedPermanent(e) == PermanentTable[<<e.type, e.msg>>]
ClassifiedTransient(e) == ~ PermanentTable[<<e.type, e.msg>>] /\ RetryableTable[<<e.type, e.msg>>]
Unclassified(e)        == ~ PermanentTable[<<e.type, e.msg>>] /\ ~ RetryableTable[<<e.type, e.msg>>]

\* func raised at invocation i
Raised(i) == i \in DOMAIN log /\ log[i].kind = "raise"

\* func raised a transient-classified error at each of its first k invocations
TransientPrefix(k) ==
    /\ k <= Len(log)
    /\ \A i \in 1..k : Raised(i) /\ ClassifiedTransient(log[i].error)

\* schedule[min(i-1, len(schedule)-1)] for i = 1..k, the schedule indexed from 0
ScheduledSleeps(k) ==
    [i \in 1..k |-> backoff_delays[Min(i - 1, Len(backoff_delays) - 1) + 1]]

\* C1: with a non-empty schedule, when func raised transient-classified errors
\* at its first k invocations (k < max_attempts) the wrapper is still in its
\* loop, about to invoke func again, after exactly the k scheduled sleeps; when
\* func then returns a value at invocation k+1, the wrapper has returned that
\* value after exactly k+1 invocations and the same k sleeps (with
\* max_attempts = 3, the default schedule and k = 2: sleeps [1, 2]), and no
\* invocation and no sleep follows the successful attempt.
C1_TransientThenSuccess ==
    Len(backoff_delays) > 0 =>
        \A k \in 0..(max_attempts - 1) :
            /\ (Len(log) = k /\ TransientPrefix(k)) =>
                   /\ pc = "running"
                   /\ attempt = k
                   /\ calls = k
                   /\ sleeps = ScheduledSleeps(k)
            /\ (Len(log) >= k + 1 /\ TransientPrefix(k) /\ log[k + 1].kind = "return") =>
                   /\ Len(log) = k + 1
                   /\ pc = "returned"
                   /\ result = log[k + 1].value
                   /\ raised = NoError
                   /\ calls = k + 1
                   /\ sleeps = ScheduledSleeps(k)
                   /\ (max_attempts = 3 /\ backoff_delays = default_backoff_delays /\ k = 2)
                          => sleeps = <<1, 2>>

\* C1 witness: two transient failures, success on attempt 3 of 3, default schedule
C1_Witness ==
    /\ max_attempts = 3
    /\ backoff_delays = default_backoff_delays
    /\ Len(log) = 3
    /\ TransientPrefix(2)
    /\ log[3].kind = "return"
    /\ pc = "returned"
    /\ sleeps = <<1, 2>>

\* C2: an invocation that raised a permanent-classified error (one of the four
\* permanent class names, or a message the permanent classifier matches) is the
\* last invocation: the wrapper has propagated that same error, func was not
\* invoked again and no sleep followed it, whatever max_attempts is; on
\* attempt 1 that is one invocation and zero sleeps.
C2_PermanentPropagatesAtOnce ==
    \A i \in DOMAIN log :
        (Raised(i) /\ (log[i].error.type \in permanent_errors
                       \/ ClassifiedPermanent(log[i].error))) =>
            /\ Len(log) = i
            /\ calls = i
            /\ pc = "raised"
            /\ raised = log[i].error
            /\ raised.id = i
            /\ Len(sleeps) = i - 1

\* C2 witness: a permanent error on attempt 1 with attempts to spare, and one
\* on a later attempt
C2_Witness ==
    /\ max_attempts >= 3
    /\ Raised(Len(log))
    /\ log[Len(log)].error.type = "NotFoundError"
    /\ pc = "raised"
    /\ Len(log) = 2

C2_WitnessFirst ==
    /\ max_attempts >= 3
    /\ Len(log) = 1
    /\ Raised(1)
    /\ ClassifiedPermanent(log[1].error)
    /\ calls = 1
    /\ sleeps = <<>>

C4_UnclassifiedFailsClosed ==
    \A i \in DOMAIN log :
        (Raised(i) /\ Unclassified(log[i].error)) =>
            /\ Len(log) = i
            /\ calls = i
            /\ pc = "raised"
            /\ raised = log[i].error
            /\ Len(sleeps) = i - 1

\* C4 witness: an unclassified error on attempt 2 of at least 4
C4_Witness ==
    /\ max_attempts >= 4
    /\ Len(log) = 2
    /\ Raised(2)
    /\ Unclassified(log[2].error)
    /\ pc = "raised"

\* C5 (as claimed): an error whose class is a recognized transient one is
\* retried while attempts remain, whatever its message holds, and an error
\* whose class is a recognized permanent one is never retried.
C5_CategoryAuthoritative ==
    Len(backoff_delays) > 0 =>
        \A i \in DOMAIN log :
            /\ (Raised(i) /\ log[i].error.type \in retryable_errors /\ i < max_attempts)
                   => (Len(log) > i \/ pc = "running")
            /\ (Raised(i) /\ log[i].error.type \in permanent_errors)
                   => (Len(log) = i /\ pc = "raised")

\* C6: the i-th sleep of a call, performed after failed attempt number i, lasts
\* schedule[min(i-1, len(schedule)-1)]; past the end of the schedule its last
\* entry is reused (max_attempts = 5, schedule [1, 2, 4], every attempt
\* transient: sleeps [1, 2, 4, 4]).
C6_DelaySelection ==
    /\ \A i \in DOMAIN sleeps :
           /\ Raised(i)
           /\ i < max_attempts
           /\ sleeps[i] = backoff_delays[Min(i - 1, Len(backoff_delays) - 1) + 1]
           /\ i > Len(backoff_delays) => sleeps[i] = backoff_delays[Len(backoff_delays)]
    /\ (max_attempts = 5 /\ backoff_delays = <<1, 2, 4>> /\ TransientPrefix(5))
           => sleeps = <<1, 2, 4, 4>>

\* C6 witness: a sleep past the end of the default schedule
C6_Witness ==
    /\ max_attempts = 5
    /\ backoff_delays = <<1, 2, 4>>
    /\ TransientPrefix(5)
    /\ sleeps = <<1, 2, 4, 4>>

\* C7 (as claimed): for every max_attempts and every schedule, a call that has
\* ended invoked func at least once, and either returned the value func
\* returned or raised an error that func raised.
C7_OutcomeIsTheOperations ==
    /\ pc = "returned" =>
           /\ calls >= 1
           /\ log[Len(log)].kind = "return"
           /\ result = log[Len(log)].value
    /\ pc = "raised" =>
           /\ calls >= 1
           /\ \E i \in DOMAIN log : Raised(i) /\ raised = log[i].error

-----------------------------------------------------------------------------
(* Paths.  A path string is a sequence of characters; pathlib's Path is the *)
(* sequence of its components (each a string), absolute or relative.  The   *)
(* filesystem is POSIX: "/" separates, a leading "/" makes a path absolute. *)

Slash  == <<"/">>
Dot    == <<".">>
DotDot == <<".", ".">>

\* index of the first "/" of s, 0 when there is none
FirstSlash(s) ==
    IF \E i \in DOMAIN s : s[i] = "/"
    THEN CHOOSE i \in DOMAIN s : s[i] = "/" /\ \A j \in 1..(i - 1) : s[j] # "/"
    ELSE 0

\* s.split("/")
RECURSIVE SplitSlash(_)
SplitSlash(s) ==
    IF FirstSlash(s) = 0 THEN <<s>>
    ELSE <<SubSeq(s, 1, FirstSlash(s) - 1)>>
         \o SplitSlash(SubSeq(s, FirstSlash(s) + 1, Len(s)))

NotEmptyNorDot(c) == c # <<>> /\ c # Dot

\* pathlib.Path(s): empty and "." components are dropped, ".." ones are kept
PathOf(s) ==
    [abs |-> StartsWith(s, Slash), parts |-> SelectSeq(SplitSlash(s), NotEmptyNorDot)]

\* the components joined with "/"
RECURSIVE JoinParts(_)
JoinParts(parts) ==
    IF parts = <<>> THEN <<>>
    ELSE IF Len(parts) = 1 THEN parts[1]
    ELSE parts[1] \o Slash \o JoinParts(Tail(parts))

\* str(path)
PathStr(path) ==
    IF path.abs THEN Slash \o JoinParts(path.parts)
    ELSE IF path.parts = <<>> THEN Dot
    ELSE JoinParts(path.parts)

\* a / b  (pathlib's join: an absolute right operand replaces the left one)
PathJoin(a, b) ==
    IF b.abs THEN b ELSE [abs |-> a.abs, parts |-> a.parts \o b.parts]

\* path.parent, for the components of an absolute path ("/" is its own parent)
Parent(parts) == IF parts = <<>> THEN <<>> ELSE SubSeq(parts, 1, Len(parts) - 1)

\* the characters of the model in ASCII order, for Python's string comparison
AsciiChars == <<" ", "-", ".", "/", "0", "1", "2", "3", "4", "5", "6", "7", "8", "9",
                "A","B","C","D","E","F","G","H","I","J","K","L","M",
                "N","O","P","Q","R","S","T","U","V","W","X","Y","Z",
                "a","b","c","d","e","f","g","h","i","j","k","l","m",
                "n","o","p","q","r","s","t","u","v","w","x","y","z">>
Ord(c) == CHOOSE i \in DOMAIN AsciiChars : AsciiChars[i] = c

\* a < b for two strings
StrLess(a, b) ==
    \E i \in 1..(Min(Len(a), Len(b)) + 1) :
        /\ \A j \in 1..(i - 1) : a[j] = b[j]
        /\ IF i > Len(a) THEN i <= Len(b)
           ELSE IF i > Len(b) THEN FALSE
           ELSE Ord(a[i]) < Ord(b[i])

\* a > b for two absolute paths: pathlib compares the lists of components
PathGreater(a, b) ==
    \E i \in 1..(Min(Len(a), Len(b)) + 1) :
        /\ \A j \in 1..(i - 1) : a[j] = b[j]
        /\ IF i > Len(b) THEN i <= Len(a)
           ELSE IF i > Len(a) THEN FALSE
           ELSE StrLess(b[i], a[i])

-----------------------------------------------------------------------------
(* The filesystem: directories, regular files (with their bytes) and        *)
(* symbolic links (with their absolute, link-free targets), each named by   *)
(* the components of its absolute path.                                      *)

Exists(f, p) == p \in f.dirs \/ p \in DOMAIN f.files \/ p \in DOMAIN f.links

\* the entries of directory d
Children(f, d) ==
    { p \in f.dirs \cup DOMAIN f.files \cup DOMAIN f.links :
        Len(p) = Len(d) + 1 /\ SubSeq(p, 1, Len(d)) = d }

\* Path.resolve() (strict=False) of an absolute path: symbolic links are
\* followed, ".." steps to the parent of what is resolved so far, components
\* that do not exist are kept as they are
RECURSIVE RealPath(_, _, _)
RealPath(f, cur, rest) ==
    IF rest = <<>> THEN cur
    ELSE IF Head(rest) = DotDot THEN RealPath(f, Parent(cur), Tail(rest))
    ELSE IF Append(cur, Head(rest)) \in DOMAIN f.links
         THEN RealPath(f, <<>>, f.links[Append(cur, Head(rest))] \o Tail(rest))
    ELSE RealPath(f, Append(cur, Head(rest)), Tail(rest))

Resolve(f, path) == [abs |-> TRUE, parts |-> RealPath(f, <<>>, path.parts)]

\* config.get_audio_storage_path(): StorageService.base_path
base_path == [abs |-> TRUE, parts |-> << <<"s">>, <<"a">> >>]

-----------------------------------------------------------------------------
(* StorageService *)

NoPath == <<>>
NoFs   == [dirs |-> {}, files |-> <<>>, links |-> <<>>]
NoCall == [op |-> "none", arg |-> <<>>, outcome |-> "none", path |-> NoPath,
           value |-> <<>>, before |-> NoFs]

\* (mutant) only a leading ".." is looked for
path_is_rejected_prefix_only(relative_path) ==
    StartsWith(relative_path, DotDot) \/ StartsWith(relative_path, Slash)

\* get_audio_file_path, line 222
path_is_rejected(relative_path) ==
    Contains(relative_path, DotDot) \/ StartsWith(relative_path, Slash)

\* get_audio_file_path, line 235
under_base(resolved, base_resolved) ==
    StartsWith(PathStr(resolved), PathStr(base_resolved))

\* (mutant) resolve(strict=True): a path that does not exist raises, which
\* line 241 turns into InvalidPathError
get_audio_file_path_strict(f, relative_path) ==
    IF path_is_rejected(relative_path)
    THEN [outcome |-> "InvalidPathError", path |-> NoPath]
    ELSE LET rel_path      == PathOf(relative_path)
             full_path     == PathJoin(base_path, rel_path)
             resolved      == Resolve(f, full_path)
             base_resolved == Resolve(f, base_path)
         IN  IF ~ Exists(f, resolved.parts) \/ ~ under_base(resolved, base_resolved)
             THEN [outcome |-> "InvalidPathError", path |-> NoPath]
             ELSE [outcome |-> "path", path |-> resolved.parts]

\* get_audio_file_path: the resolved path, or InvalidPathError
get_audio_file_path(f, relative_path) ==
    IF path_is_rejected(relative_path)
    THEN [outcome |-> "InvalidPathError", path |-> NoPath]
    ELSE LET rel_path      == PathOf(relative_path)
             full_path     == PathJoin(base_path, rel_path)
             resolved      == Resolve(f, full_path)
             base_resolved == Resolve(f, base_path)
         IN  IF ~ under_base(resolved, base_resolved)
             THEN [outcome |-> "InvalidPathError", path |-> NoPath]
             ELSE [outcome |-> "path", path |-> resolved.parts]

\* Path.unlink() of a regular file
Unlink(f, p) ==
    [f EXCEPT !.files = [q \in (DOMAIN f.files) \ {p} |-> f.files[q]]]

\* Path.rmdir()
Rmdir(f, d) == [f EXCEPT !.dirs = f.dirs \ {d}]

\* _cleanup_empty_directories
RECURSIVE cleanup_empty_directories(_, _)
cleanup_empty_directories(f, current) ==
    LET base_resolved == Resolve(f, base_path).parts
    IN  IF current # base_resolved /\ PathGreater(current, base_resolved)
        THEN IF current \in f.dirs /\ Children(f, current) = {}
             THEN cleanup_empty_directories(Rmdir(f, current), Parent(current))
             ELSE f
        ELSE f

\* (mutant) no exists() test: unlink() of a missing file raises
delete_audio_file_no_exists_test(f, relative_path) ==
    LET r == get_audio_file_path(f, relative_path)
    IN  IF r.outcome = "InvalidPathError"
        THEN [outcome |-> "InvalidPathError", fs |-> f]
        ELSE IF r.path \in DOMAIN f.files
        THEN [outcome |-> "True",
              fs |-> cleanup_empty_directories(Unlink(f, r.path), Parent(r.path))]
        ELSE [outcome |-> "StorageError", fs |-> f]

\* delete_audio_file (no I/O fault): its outcome and the filesystem it leaves
delete_audio_file(f, relative_path) ==
    LET r == get_audio_file_path(f, relative_path)
    IN  IF r.outcome = "InvalidPathError"
        THEN [outcome |-> "InvalidPathError", fs |-> f]
        ELSE IF ~ Exists(f, r.path)
        THEN [outcome |-> "False", fs |-> f]
        ELSE IF r.path \in DOMAIN f.files
        THEN [outcome |-> "True",
              fs |-> cleanup_empty_directories(Unlink(f, r.path), Parent(r.path))]
        \* unlink() of a directory raises, caught at line 278
        ELSE [outcome |-> "StorageError", fs |-> f]

\* str.strip() (the only whitespace of the model is " ")
RECURSIVE LStrip(_)
LStrip(s) == IF s # <<>> /\ s[1] = " " THEN LStrip(Tail(s)) ELSE s
RECURSIVE RStrip(_)
RStrip(s) ==
    IF s # <<>> /\ s[Len(s)] = " " THEN RStrip(SubSeq(s, 1, Len(s) - 1)) ELSE s
Strip(s) == RStrip(LStrip(s))

\* _normalize_extension
normalize_extension(extension) ==
    LET ext == Strip(Lower(extension))
    IN  IF ~ StartsWith(ext, Dot) THEN Dot \o ext ELSE ext

\* strftime("%Y"), strftime("%m"), strftime("%d")
Digits == <<"0", "1", "2", "3", "4", "5", "6", "7", "8", "9">>
Digit(n) == Digits[n + 1]
Strftime_Y(date) ==
    <<Digit(date.year \div 1000), Digit((date.year \div 100) % 10),
      Digit((date.year \div 10) % 10), Digit(date.year % 10)>>
Strftime_m(date) == <<Digit(date.month \div 10), Digit(date.month % 10)>>
Strftime_d(date) == <<Digit(date.day \div 10), Digit(date.day % 10)>>

\* _get_date_path
get_date_path(date) ==
    PathJoin(PathJoin(PathOf(Strftime_Y(date)), PathOf(Strftime_m(date))),
             PathOf(Strftime_d(date)))

\* the prefixes of a list of components
Prefixes(parts) == { SubSeq(parts, 1, k) : k \in 0..Len(parts) }

\* _ensure_directory: mkdir(parents=True, exist_ok=True); it fails when a
\* component of the path is a regular file
ensure_directory(f, directory) ==
    LET real == RealPath(f, <<>>, directory.parts)
    IN  IF \E q \in Prefixes(real) : q \in DOMAIN f.files
        THEN [ok |-> FALSE, fs |-> f]
        ELSE [ok |-> TRUE, fs |-> [f EXCEPT !.dirs = f.dirs \cup Prefixes(real)]]

\* the kernel's walk through the directories of a path
RECURSIVE WalkDirs(_, _, _)
WalkDirs(f, cur, rest) ==
    IF rest = <<>> THEN [ok |-> TRUE, at |-> cur]
    ELSE IF Head(rest) = DotDot THEN WalkDirs(f, Parent(cur), Tail(rest))
    ELSE IF Append(cur, Head(rest)) \in DOMAIN f.links
         THEN IF f.links[Append(cur, Head(rest))] \in f.dirs
              THEN WalkDirs(f, f.links[Append(cur, Head(rest))], Tail(rest))
              ELSE [ok |-> FALSE, at |-> cur]
    ELSE IF Append(cur, Head(rest)) \in f.dirs
         THEN WalkDirs(f, Append(cur, Head(rest)), Tail(rest))
    ELSE [ok |-> FALSE, at |-> cur]

\* open(full_path, 'wb'): the file it creates or truncates, or an OSError
OpenForWrite(f, parts) ==
    IF parts = <<>> \/ parts[Len(parts)] = DotDot
    THEN [ok |-> FALSE, target |-> NoPath]
    ELSE LET w == WalkDirs(f, <<>>, SubSeq(parts, 1, Len(parts) - 1))
             t == Append(w.at, parts[Len(parts)])
             target == IF t \in DOMAIN f.links THEN f.links[t] ELSE t
         IN  IF ~ w.ok \/ target \in f.dirs \/ Parent(target) \notin f.dirs
             THEN [ok |-> FALSE, target |-> NoPath]
             ELSE [ok |-> TRUE, target |-> target]

\* copyfileobj(file, dest) into the opened file
WriteFile(f, target, content) ==
    [f EXCEPT !.files =
        [q \in (DOMAIN f.files) \cup {target} |->
            IF q = target THEN content ELSE f.files[q]]]

\* save_audio_file (no I/O fault): its outcome, the relative path it returns
\* and the filesystem it leaves; uuid4 is the string uuid.uuid4() produced
save_audio_file(f, content, extension, date, uuid4) ==
    LET ext           == normalize_extension(extension)
        filename      == uuid4 \o ext
        date_path     == get_date_path(date)
        full_dir      == PathJoin(base_path, date_path)
        made          == ensure_directory(f, full_dir)
        full_path     == PathJoin(full_dir, PathOf(filename))
        relative_path == PathStr(PathJoin(date_path, PathOf(filename)))
        opened        == OpenForWrite(made.fs, full_path.parts)
    IN  IF ~ made.ok
        THEN [outcome |-> "StorageError", value |-> <<>>, fs |-> f]
        ELSE IF ~ opened.ok
        THEN [outcome |-> "StorageError", value |-> <<>>, fs |-> made.fs]
        ELSE [outcome |-> "returned", value |-> relative_path,
              fs |-> WriteFile(made.fs, opened.target, content)]

-----------------------------------------------------------------------------
(* The filesystems a run starts from: StorageRoot /s/a exists (the          *)
(* constructor made it) and holds the file d/f; l, where present, is a      *)
(* symbolic link placed under StorageRoot.                                   *)

P_root    == <<>>
P_s       == << <<"s">> >>
P_base    == << <<"s">>, <<"a">> >>
P_d       == << <<"s">>, <<"a">>, <<"d">> >>
P_df      == << <<"s">>, <<"a">>, <<"d">>, <<"f">> >>
P_l       == << <<"s">>, <<"a">>, <<"l">> >>
P_sibling == << <<"s">>, <<"a", "b">> >>
P_sibf    == << <<"s">>, <<"a", "b">>, <<"f">> >>
P_e       == << <<"e">> >>
P_ef      == << <<"e">>, <<"f">> >>

Bytes1 == <<1>>
Bytes2 == <<2, 3>>

NoLinks == <<>>

\* no symbolic link
LayoutPlain ==
    [dirs |-> {P_root, P_s, P_base, P_d}, files |-> (P_df :> Bytes1), links |-> NoLinks]

\* l -> /s/ab, a sibling of StorageRoot whose name starts with StorageRoot's
LayoutSiblingLink ==
    [dirs |-> {P_root, P_s, P_base, P_d, P_sibling},
     files |-> (P_df :> Bytes1) @@ (P_sibf :> Bytes2),
     links |-> (P_l :> P_sibling)]

\* l -> /e, a directory elsewhere
LayoutOutsideLink ==
    [dirs |-> {P_root, P_s, P_base, P_d, P_e},
     files |-> (P_df :> Bytes1) @@ (P_ef :> Bytes2),
     links |-> (P_l :> P_e)]

\* l -> /s/a/d, a directory under StorageRoot
LayoutInnerLink ==
    [dirs |-> {P_root, P_s, P_base, P_d}, files |-> (P_df :> Bytes1),
     links |-> (P_l :> P_d)]

Layouts == {LayoutPlain, LayoutSiblingLink, LayoutOutsideLink, LayoutInnerLink}

\* the strings over chars of length at most n
Strings(chars, n) == UNION { [1..k -> chars] : k \in 0..n }

\* the identifier strings callers hand to resolve and delete
IdChars == {"d", "f", "l", ".", "/"}
LongIds == { <<"d","/",".",".","/",".",".","/",".",".","/","e","/","f">>, <<"/","e","/","f">>, <<"d","/","f",".",".","f">> }
IdStrings == Strings(IdChars, MaxIdLen) \cup LongIds

\* the extension strings callers hand to save
ExtChars == {"m", "M", ".", "/", " "}
LongExts == { <<"m","p","3">>, <<".","W","A","V">>, <<" ","M","4","a"," ">> }
ExtStrings == Strings(ExtChars, MaxExtLen) \cup LongExts

\* the dates callers hand to save
Dates == { [year |-> 2024, month |-> 1, day |-> 15],
           [year |-> 2024, month |-> 12, day |-> 9] }

\* the values uuid.uuid4() produces (shortened), each at most once
Uuid4Strings == { <<"3","f","2","a","-","4","b">>, <<"9","c","1","d","-","4","e">>, <<"0","7","a","a","-","4","c">> }

\* the bytes of the sources handed to save
Contents == { <<>>, Bytes1 }

-----------------------------------------------------------------------------
(* Calls to the StorageService.  A call is made when none is pending; its   *)
(* outcome stays in call until the caller has taken it.                      *)

\* the caller's record of the bytes it saved: ids removed, an id added
NoBlobs == <<>>
Without(b, ids) == [i \in (DOMAIN b) \ ids |-> b[i]]
With(b, id, content) == [i \in (DOMAIN b) \cup {id} |-> IF i = id THEN content ELSE b[i]]

\* get_audio_file_path(ident)
GetAudioFilePath(ident) ==
    /\ call = NoCall
    /\ LET r == get_audio_file_path(fs, ident) IN
        call' = [op |-> "resolve", arg |-> ident, outcome |-> r.outcome,
                 path |-> r.path, value |-> <<>>, before |-> fs]
    /\ UNCHANGED <<fs, issued, used_uuids, blobs>>
    /\ UNCHANGED <<retryVars, threads>>

\* delete_audio_file(ident)
DeleteAudioFile(ident) ==
    /\ call = NoCall
    /\ LET r == delete_audio_file(fs, ident) IN
        /\ call' = [op |-> "delete", arg |-> ident, outcome |-> r.outcome,
                    path |-> NoPath, value |-> <<>>, before |-> fs]
        /\ fs' = r.fs
        /\ blobs' = IF r.outcome = "True" THEN Without(blobs, {ident}) ELSE blobs
    /\ UNCHANGED <<issued, used_uuids>>
    /\ UNCHANGED <<retryVars, threads>>

\* save_audio_file(file, extension, date), uuid.uuid4() giving uuid4
SaveAudioFile(content, extension, date, uuid4) ==
    /\ call = NoCall
    /\ Cardinality(used_uuids) < MaxSaves
    /\ uuid4 \notin used_uuids
    /\ LET r == save_audio_file(fs, content, extension, date, uuid4) IN
        /\ call' = [op |-> "save", arg |-> extension, outcome |-> r.outcome,
                    path |-> NoPath, value |-> r.value, before |-> fs]
        /\ fs' = r.fs
        /\ issued' = IF r.outcome = "returned" THEN issued \cup {r.value} ELSE issued
        /\ blobs' = IF r.outcome = "returned" THEN With(blobs, r.value, content) ELSE blobs
    /\ used_uuids' = used_uuids \cup {uuid4}
    /\ UNCHANGED <<retryVars, threads>>

\* the caller takes the outcome of its call
Return ==
    /\ call # NoCall
    /\ call' = NoCall
    /\ UNCHANGED <<fs, issued, used_uuids, blobs>>
    /\ UNCHANGED <<retryVars, threads>>

-----------------------------------------------------------------------------
(* Properties of the Path Resolver and of the identifiers save returns *)

\* the identifier contains ".." somewhere or starts with "/"
HasTraversalOrAbsolute(ident) ==
    \/ \E i \in 1..(Len(ident) - 1) : ident[i] = "." /\ ident[i + 1] = "."
    \/ (ident # <<>> /\ ident[1] = "/")

\* path p is directory d or lies below it, component by component
WithinDir(p, d) == Len(d) <= Len(p) /\ SubSeq(p, 1, Len(d)) = d

\* C8: a resolve or a delete of an identifier that contains ".." anywhere or
\* starts with "/" has ended with InvalidPathError; the resolve returned no
\* path and the delete left the filesystem as it was.
C8_TraversalRejected ==
    (call.op \in {"resolve", "delete"} /\ HasTraversalOrAbsolute(call.arg)) =>
        /\ call.outcome = "InvalidPathError"
        /\ call.path = NoPath
        /\ fs = call.before

\* C8 witness: delete of d/../../../e/f (".." after a valid prefix) while /e/f
\* exists, rejected
C8_Witness ==
    /\ call.op = "delete"
    /\ call.arg = <<"d","/",".",".","/",".",".","/",".",".","/","e","/","f">>
    /\ call.outcome = "InvalidPathError"
    /\ P_ef \in DOMAIN fs.files

\* C9 (as claimed): a path resolve returned is StorageRoot or lies below it,
\* component by component, in every layout.
C9_ResolvedWithinRoot ==
    (call.op = "resolve" /\ call.outcome = "path") =>
        WithinDir(call.path, RealPath(fs, <<>>, base_path.parts))

\* the form YYYY/MM/DD/<uuid>.<ext>, the extension lowercase
HasIdentifierForm(ident) ==
    LET parts == SplitSlash(ident)
    IN  /\ Len(parts) = 4
        /\ Len(parts[1]) = 4 /\ Len(parts[2]) = 2 /\ Len(parts[3]) = 2
        /\ \A k \in 1..3 : \A i \in DOMAIN parts[k] :
               \E n \in 0..9 : parts[k][i] = Digit(n)
        /\ \E u \in Uuid4Strings : StartsWith(parts[4], u \o Dot)
        /\ Lower(parts[4]) = parts[4]

\* C10 (as claimed): every identifier save returned has the form
\* YYYY/MM/DD/<uuid>.<ext>, holds no ".." and no leading "/", and resolve and
\* delete accept it, resolve giving a path within StorageRoot.
C10_IssuedIdentifiersValid ==
    \A ident \in issued :
        /\ HasIdentifierForm(ident)
        /\ ~ HasTraversalOrAbsolute(ident)
        /\ get_audio_file_path(fs, ident).outcome = "path"
        /\ WithinDir(get_audio_file_path(fs, ident).path, base_path.parts)
        /\ delete_audio_file(fs, ident).outcome # "InvalidPathError"

-----------------------------------------------------------------------------
(* I/O failures.  An exception is its class and its errno.  The classes are *)
(* the builtin ones the operating system's failures are raised as and the   *)
(* ones storage.py defines; inside storage.py the name PermissionError is   *)
(* the class of line 32, which is not the builtin of the same name.         *)

\* the base class of each class
BaseClass ==
    [c \in {"builtins.PermissionError", "builtins.FileNotFoundError",
            "builtins.OSError", "StorageError", "DiskFullError",
            "PermissionError", "InvalidPathError", "Exception"} |->
        CASE c \in {"builtins.PermissionError", "builtins.FileNotFoundError"}
                 -> "builtins.OSError"
          [] c \in {"DiskFullError", "PermissionError", "InvalidPathError"}
                 -> "StorageError"
          [] OTHER -> "Exception"]

\* isinstance(e, cls), as an except clause tests it
RECURSIVE IsInstance(_, _)
IsInstance(class, cls) ==
    \/ class = cls
    \/ (class # "Exception" /\ IsInstance(BaseClass[class], cls))

NoFault == [class |-> "none", errno |-> 0, at |-> "none"]

\* the failures of the operating system: EACCES when the file is opened or
\* unlinked, ENOSPC and EIO while the opened file is written
EACCES == [class |-> "builtins.PermissionError", errno |-> 13, at |-> "open"]
ENOSPC == [class |-> "builtins.OSError", errno |-> 28, at |-> "write"]
EIO    == [class |-> "builtins.OSError", errno |-> 5, at |-> "write"]

\* (mutant) the first except clause names the builtin PermissionError
save_except_builtin(e) ==
    IF IsInstance(e.class, "builtins.PermissionError") THEN "PermissionError"
    ELSE IF IsInstance(e.class, "builtins.OSError")
    THEN IF e.errno \in {28, 112} THEN "DiskFullError" ELSE "StorageError"
    ELSE "StorageError"

\* save_audio_file, lines 192-205: the class of the error raised for e
save_except(e) ==
    IF IsInstance(e.class, "PermissionError") THEN "PermissionError"
    ELSE IF IsInstance(e.class, "builtins.OSError")
    THEN IF e.errno \in {28, 112} THEN "DiskFullError" ELSE "StorageError"
    ELSE "StorageError"

\* delete_audio_file, lines 275-280: the class of the error raised for e
delete_except(e) ==
    IF IsInstance(e.class, "PermissionError") THEN "PermissionError"
    ELSE "StorageError"

\* save_audio_file with the failure fault of the operating system (NoFault:
\* none): a failure of open leaves no file, a failure of a write leaves the
\* file open created, holding the first written bytes of the source
save_audio_file_io(f, content, extension, date, uuid4, fault, written) ==
    LET r         == save_audio_file(f, content, extension, date, uuid4)
        full_dir  == PathJoin(base_path, get_date_path(date))
        made      == ensure_directory(f, full_dir)
        full_path == PathJoin(full_dir, PathOf(uuid4 \o normalize_extension(extension)))
        opened    == OpenForWrite(made.fs, full_path.parts)
    IN  IF fault = NoFault \/ r.outcome # "returned" THEN r
        ELSE IF fault.at = "open"
        THEN [outcome |-> save_except(fault), value |-> <<>>, fs |-> made.fs]
        ELSE [outcome |-> save_except(fault), value |-> <<>>,
              fs |-> WriteFile(made.fs, opened.target, SubSeq(content, 1, written))]

\* delete_audio_file with the failure fault of unlink() (NoFault: none)
delete_audio_file_io(f, relative_path, fault) ==
    LET r == delete_audio_file(f, relative_path)
    IN  IF fault = NoFault \/ r.outcome # "True" THEN r
        ELSE [outcome |-> delete_except(fault), fs |-> f]

-----------------------------------------------------------------------------
(* get_all_stored_files and cleanup_orphaned_files *)

\* the entries base_path.rglob('*') yields: everything below d, walking into
\* directories and not into symbolic links
Walked(f, d) ==
    { p \in f.dirs \cup DOMAIN f.files \cup DOMAIN f.links :
        /\ Len(p) > Len(d)
        /\ SubSeq(p, 1, Len(d)) = d
        /\ \A k \in (Len(d) + 1)..(Len(p) - 1) : SubSeq(p, 1, k) \in f.dirs }

\* Path.is_file(): a regular file, or a symbolic link to one
IsFile(f, p) ==
    \/ p \in DOMAIN f.files
    \/ (p \in DOMAIN f.links /\ f.links[p] \in DOMAIN f.files)

\* file_path.relative_to(self.base_path)
RelativeTo(p, d) == [abs |-> FALSE, parts |-> SubSeq(p, Len(d) + 1, Len(p))]

\* (mutant) directories are listed as well
get_all_stored_files_with_dirs(f, scan_fault) ==
    IF scan_fault # NoFault THEN [outcome |-> "StorageError", value |-> {}]
    ELSE IF ~ Exists(f, base_path.parts) THEN [outcome |-> "returned", value |-> {}]
    ELSE [outcome |-> "returned",
          value |-> { PathStr(RelativeTo(p, base_path.parts)) :
                        p \in Walked(f, base_path.parts) }]

\* get_all_stored_files; scan_fault is the failure of the directory scan
get_all_stored_files(f, scan_fault) ==
    IF scan_fault # NoFault THEN [outcome |-> "StorageError", value |-> {}]
    ELSE IF ~ Exists(f, base_path.parts) THEN [outcome |-> "returned", value |-> {}]
    ELSE [outcome |-> "returned",
          value |-> { PathStr(RelativeTo(p, base_path.parts)) :
                        p \in { q \in Walked(f, base_path.parts) : IsFile(f, q) } }]

\* the orders in which a set is iterated
Orders(S) ==
    { o \in [1..Cardinality(S) -> S] : \A i, j \in DOMAIN o : o[i] = o[j] => i = j }

\* an exception left delete_audio_file
DeleteRaised(outcome) == outcome \notin {"True", "False"}

\* (mutant) the loop ends at the first delete that raises
RECURSIVE delete_orphans_until_failure(_, _, _, _)
delete_orphans_until_failure(f, order, failing, fault) ==
    IF order = <<>> THEN [fs |-> f, deleted_count |-> 0, outcomes |-> <<>>]
    ELSE LET r == delete_audio_file_io(f, Head(order),
                      IF Head(order) \in failing THEN fault ELSE NoFault)
             rest == IF DeleteRaised(r.outcome)
                     THEN [fs |-> r.fs, deleted_count |-> 0, outcomes |-> <<>>]
                     ELSE delete_orphans_until_failure(r.fs, Tail(order), failing, fault)
         IN  [fs |-> rest.fs,
              deleted_count |-> rest.deleted_count + (IF r.outcome = "True" THEN 1 ELSE 0),
              outcomes |-> <<[id |-> Head(order), outcome |-> r.outcome]>> \o rest.outcomes]

\* cleanup_orphaned_files, lines 351-359: the loop over orphaned_files, taken
\* in the order order; unlink() fails with fault for the identifiers in failing
RECURSIVE delete_orphans(_, _, _, _)
delete_orphans(f, order, failing, fault) ==
    IF order = <<>> THEN [fs |-> f, deleted_count |-> 0, outcomes |-> <<>>]
    ELSE LET r == delete_audio_file_io(f, Head(order),
                      IF Head(order) \in failing THEN fault ELSE NoFault)
             rest == delete_orphans(r.fs, Tail(order), failing, fault)
         IN  [fs |-> rest.fs,
              deleted_count |-> rest.deleted_count + (IF r.outcome = "True" THEN 1 ELSE 0),
              outcomes |-> <<[id |-> Head(order), outcome |-> r.outcome]>> \o rest.outcomes]

\* stored_files - database_files, line 349 (empty when the scan failed)
orphaned_files(f, database_files, scan_fault) ==
    get_all_stored_files(f, scan_fault).value \ database_files

\* (mutant) a failed scan counts as an empty store
cleanup_orphaned_files_scan_ignored(f, database_files, order, failing, fault, scan_fault) ==
    LET r == delete_orphans(f, order, failing, fault)
    IN  [outcome |-> "returned", value |-> r.deleted_count, fs |-> r.fs,
         outcomes |-> r.outcomes]

\* cleanup_orphaned_files; order enumerates orphaned_files
cleanup_orphaned_files(f, database_files, order, failing, fault, scan_fault) ==
    IF get_all_stored_files(f, scan_fault).outcome = "StorageError"
    THEN [outcome |-> "StorageError", value |-> 0, fs |-> f, outcomes |-> <<>>]
    ELSE LET r == delete_orphans(f, order, failing, fault)
         IN  [outcome |-> "returned", value |-> r.deleted_count, fs |-> r.fs,
              outcomes |-> r.outcomes]

-----------------------------------------------------------------------------
(* The store the Blob Store claims are checked on: StorageRoot exists and is *)
(* empty, or holds blobs saved earlier.                                      *)

\* number of save_audio_file calls in one run of the store
MaxBlobs == 2

\* the values uuid.uuid4() produces, in the order it produces them
UuidSeq == << <<"3","f","2","a","-","4","b">> , <<"9","c","1","d","-","4","e">> , <<"0","7","a","a","-","4","c">> , <<"5","b","6","e","-","4","d">> , <<"7","d","8","f","-","4","a">> , <<"2","e","0","b","-","4","f">> >>
NextUuid == UuidSeq[Cardinality(used_uuids) + 1]

\* the extension strings handed to save
StoreExts == { <<"M","p","3">>, <<".",".">> }

\* an identifier of the form save returns that no save returned
NeverSaved == <<"2","0","2","4","/","1","2","/","0","9","/","0","7","a","a","-","4","c",".","m","4","a">>

\* StorageRoot right after the constructor
EmptyStore == [dirs |-> {P_root, P_s, P_base}, files |-> <<>>, links |-> NoLinks]

\* the file of identifier ident: StorageRoot joined with its components
BlobPath(ident) == base_path.parts \o PathOf(ident).parts

\* one blob saved earlier (uuid4() gave the first value of UuidSeq), in the
\* partition of 2024-01-15
Blob_A == <<"2","0","2","4","/","0","1","/","1","5","/","3","f","2","a","-","4","b",".","m","p","3">>
P_2024    == P_base \o << <<"2","0","2","4">> >>
P_2024_01 == P_2024 \o << <<"0","1">> >>
P_part_A  == P_2024_01 \o << <<"1","5">> >>
LayoutOneBlob ==
    [dirs |-> {P_root, P_s, P_base, P_2024, P_2024_01, P_part_A},
     files |-> (BlobPath(Blob_A) :> Bytes1),
     links |-> NoLinks]

\* the same, and l, a symbolic link under StorageRoot to the file of Blob_A
LayoutBlobLink ==
    [LayoutOneBlob EXCEPT !.links = (P_l :> BlobPath(Blob_A))]

StoreLayouts == {LayoutOneBlob, LayoutBlobLink}

\* the failures of the operating system during a save and during an unlink()
Faults == {NoFault, EACCES, ENOSPC, EIO}
UnlinkFaults == {NoFault, EACCES, EIO}

\* save_audio_file(file, extension, date) under the failure fault; written is
\* the number of bytes written when a write fails
SaveAudioFileIO(content, extension, date, uuid4, fault, written) ==
    /\ call = NoCall
    /\ Cardinality(used_uuids) < MaxBlobs
    /\ uuid4 \notin used_uuids
    /\ \E r \in {save_audio_file_io(fs, content, extension, date, uuid4, fault, written)} :
        /\ call' = [op |-> "save", arg |-> extension, outcome |-> r.outcome,
                    path |-> NoPath, value |-> r.value, before |-> fs,
                    fault |-> fault]
        /\ fs' = r.fs
        /\ issued' = IF r.outcome = "returned" THEN issued \cup {r.value} ELSE issued
        /\ blobs' = IF r.outcome = "returned" THEN With(blobs, r.value, content) ELSE blobs
    /\ used_uuids' = used_uuids \cup {uuid4}
    /\ UNCHANGED <<retryVars, threads>>

\* delete_audio_file(ident) under the failure fault of unlink()
DeleteAudioFileIO(ident, fault) ==
    /\ call = NoCall
    /\ \E r \in {delete_audio_file_io(fs, ident, fault)} :
        /\ call' = [op |-> "delete", arg |-> ident, outcome |-> r.outcome,
                    path |-> NoPath, value |-> <<>>, before |-> fs,
                    fault |-> fault]
        /\ fs' = r.fs
        /\ blobs' = IF r.outcome = "True" THEN Without(blobs, {ident}) ELSE blobs
    /\ UNCHANGED <<issued, used_uuids>>
    /\ UNCHANGED <<retryVars, threads>>

\* get_all_stored_files()
GetAllStoredFiles(scan_fault) ==
    /\ call = NoCall
    /\ \E r \in {get_all_stored_files(fs, scan_fault)} :
        call' = [op |-> "list", arg |-> <<>>, outcome |-> r.outcome,
                 path |-> NoPath, value |-> r.value, before |-> fs,
                 fault |-> scan_fault]
    /\ UNCHANGED <<fs, issued, used_uuids, blobs>>
    /\ UNCHANGED <<retryVars, threads>>

\* the subsets of S of at most one element
AtMostOne(S) == {{}} \cup { {x} : x \in S }

\* the identifiers whose delete returned True
DeletedBy(outcomes) ==
    { outcomes[i].id : i \in { j \in DOMAIN outcomes : outcomes[j].outcome = "True" } }

\* cleanup_orphaned_files(database_files): the set of orphans is iterated in
\* some order; unlink() fails with fault for the orphans in failing
CleanupOrphanedFiles(database_files, failing, fault, scan_fault) ==
    /\ call = NoCall
    /\ failing \subseteq orphaned_files(fs, database_files, scan_fault)
    /\ \E order \in Orders(orphaned_files(fs, database_files, scan_fault)) :
        \E r \in {cleanup_orphaned_files(fs, database_files, order, failing,
                                        fault, scan_fault)} :
        /\ call' = [op |-> "reconcile", arg |-> database_files, outcome |-> r.outcome,
                    path |-> NoPath, value |-> r.value, before |-> fs,
                    fault |-> scan_fault, outcomes |-> r.outcomes]
        /\ fs' = r.fs
        /\ blobs' = Without(blobs, DeletedBy(r.outcomes))
    /\ UNCHANGED <<issued, used_uuids>>
    /\ UNCHANGED <<retryVars, threads>>

-----------------------------------------------------------------------------
(* Properties of the Blob Store and of the Reconciler *)

\* C11 (as claimed): for every identifier save returned and no delete removed
\* since, resolve gives a path and the file at that path holds exactly the
\* bytes of the source, whatever was saved or deleted in between.
C11_SaveResolveRoundTrip ==
    \A ident \in DOMAIN blobs :
        /\ get_audio_file_path(fs, ident).outcome = "path"
        /\ get_audio_file_path(fs, ident).path \in DOMAIN fs.files
        /\ fs.files[get_audio_file_path(fs, ident).path] = blobs[ident]

\* listAll(): the set get_all_stored_files returns on filesystem f
ListAll(f) == get_all_stored_files(f, NoFault).value

\* C12 (as claimed): a save that ended with an error has left the set listAll
\* returns as it was before the save.
C12_FailedSaveLeavesNoBlob ==
    (call.op = "save" /\ call.outcome # "returned") =>
        ListAll(fs) = ListAll(call.before)

\* C13 (as claimed): an access-control failure during the write of save or
\* the unlink of delete is surfaced as PermissionError, an out-of-space
\* failure during save as DiskFullError, another I/O failure as StorageError.
C13_StorageErrorMapping ==
    /\ (call.op = "save" /\ call.fault = EACCES) => call.outcome = "PermissionError"
    /\ (call.op = "save" /\ call.fault = ENOSPC) => call.outcome = "DiskFullError"
    /\ (call.op = "save" /\ call.fault = EIO) => call.outcome = "StorageError"
    /\ (call.op = "delete" /\ BlobPath(call.arg) \in DOMAIN call.before.files) =>
           /\ call.fault = EACCES => call.outcome = "PermissionError"
           /\ call.fault = EIO => call.outcome = "StorageError"

\* C14 (as claimed): after cleanup_orphaned_files(database_files), every blob
\* whose identifier is in database_files and whose file existed before the
\* call still exists with the same bytes, whatever else the store holds and
\* whichever deletes failed.
C14_ReferencedBlobsKept ==
    call.op = "reconcile" =>
        \A ident \in call.arg :
            BlobPath(ident) \in DOMAIN call.before.files =>
                /\ BlobPath(ident) \in DOMAIN fs.files
                /\ fs.files[BlobPath(ident)] = call.before.files[BlobPath(ident)]

\* C15 (as claimed): without I/O failures cleanup_orphaned_files(R) deletes
\* exactly the blobs of listAll() minus R, returns their number, and leaves
\* listAll() equal to the previous listAll() intersected with R.
C15_ReconcilerResult ==
    call.op = "reconcile" =>
        /\ call.outcome = "returned"
        /\ call.value = Cardinality(ListAll(call.before) \ call.arg)
        /\ DeletedBy(call.outcomes) = ListAll(call.before) \ call.arg
        /\ ListAll(fs) = ListAll(call.before) \cap call.arg

\* C16: when the scan succeeded, cleanup_orphaned_files has called delete
\* once for every orphan, those after a delete that raised included, has not
\* raised, and has returned the number of deletes that returned True.
C16_PartialFailure ==
    (call.op = "reconcile" /\ call.fault = NoFault) =>
        /\ call.outcome = "returned"
        /\ { call.outcomes[i].id : i \in DOMAIN call.outcomes }
               = orphaned_files(call.before, call.arg, NoFault)
        /\ Len(call.outcomes) = Cardinality(orphaned_files(call.before, call.arg, NoFault))
        /\ call.value =
               Cardinality({ i \in DOMAIN call.outcomes : call.outcomes[i].outcome = "True" })

\* C16 witness: a delete raised and a later delete of the same run returned
\* True and was counted
C16_Witness ==
    /\ call.op = "reconcile"
    /\ call.outcome = "returned"
    /\ call.value = 1
    /\ \E i, j \in DOMAIN call.outcomes :
           /\ i < j
           /\ DeleteRaised(call.outcomes[i].outcome)
           /\ call.outcomes[j].outcome = "True"

\* C17: when the scan of StorageRoot fails, cleanup_orphaned_files raises
\* StorageError, has called no delete and has left the filesystem as it was.
C17_ScanFailureIsFatal ==
    (call.op = "reconcile" /\ call.fault # NoFault) =>
        /\ call.outcome = "StorageError"
        /\ call.outcomes = <<>>
        /\ fs = call.before

\* C17 witness: the scan failed while the store held an orphan
C17_Witness ==
    /\ call.op = "reconcile"
    /\ call.fault = EIO
    /\ call.outcome = "StorageError"
    /\ ListAll(call.before) \ call.arg # {}

\* C18: delete of a well-formed identifier returns True exactly when the file
\* existed, and has then removed it; it returns False, without raising and
\* without changing the filesystem, when the file did not exist.
C18_DeleteIdempotent ==
    (call.op = "delete" /\ HasIdentifierForm(call.arg)
                        /\ ~ HasTraversalOrAbsolute(call.arg)) =>
        /\ call.outcome \in {"True", "False"}
        /\ call.outcome = "True" <=> BlobPath(call.arg) \in DOMAIN call.before.files
        /\ call.outcome = "True" => ~ Exists(fs, BlobPath(call.arg))
        /\ call.outcome = "False" => fs = call.before

\* C18 witness: the second delete of an identifier save returned gave False
C18_Witness ==
    /\ call.op = "delete"
    /\ call.arg \in issued \ DOMAIN blobs
    /\ call.outcome = "False"
    /\ fs = call.before

\* the identifiers save returned and a delete removed since
Removed == issued \ DOMAIN blobs

\* C19: for an identifier whose blob a delete removed, resolve returns a path
\* within StorageRoot (no InvalidPathError), at which no file exists.
C19_ResolveAfterDelete ==
    /\ \A ident \in Removed :
           /\ get_audio_file_path(fs, ident).outcome = "path"
           /\ WithinDir(get_audio_file_path(fs, ident).path, base_path.parts)
           /\ ~ Exists(fs, get_audio_file_path(fs, ident).path)
    /\ (call.op = "resolve" /\ call.arg \in Removed) =>
           /\ call.outcome = "path"
           /\ WithinDir(call.path, base_path.parts)
           /\ ~ Exists(fs, call.path)

\* C19 witness: resolve of a removed identifier after the delete has removed
\* the partition directories as well
C19_Witness ==
    /\ call.op = "resolve"
    /\ call.arg \in Removed
    /\ call.outcome = "path"
    /\ P_2024 \notin fs.dirs

\* C20: without I/O failures listAll() is exactly the set of the identifiers
\* save returned and no delete or reconciliation removed since, each the
\* string save returned: relative, and no directory among them.
C20_ListReflectsStore ==
    /\ ListAll(fs) = DOMAIN blobs
    /\ ListAll(fs) \subseteq issued
    /\ \A ident \in ListAll(fs) :
           ~ StartsWith(ident, Slash) /\ BlobPath(ident) \in DOMAIN fs.files
    /\ call.op = "list" => (call.outcome = "returned" /\ call.value = DOMAIN blobs)

\* C20 witness: a listing of a store that holds a blob, after another blob
\* was removed
C20_Witness ==
    /\ call.op = "list"
    /\ call.value # {}
    /\ Removed # {}

-----------------------------------------------------------------------------
(* Storage calls in progress at the same time.  StorageService takes no     *)
(* lock: each call is a sequence of system calls on the shared filesystem,  *)
(* and the system calls of the threads interleave.  A thread runs one call; *)
(* its record holds the call's arguments, its position and its locals.      *)

\* number of calls in progress at the same time
MaxThreads == 2
Threads == 1..MaxThreads

NewThread(op, arg) ==
    [op |-> op, pc |-> "start", arg |-> arg,
     relative_path |-> <<>>, full_path |-> NoPath, current |-> NoPath,
     stored_files |-> {}, attempted |-> {}, deleted_count |-> 0,
     outcome |-> "none", value |-> <<>>,
     \* bookkeeping of the model: the files this thread's unlink() removed,
     \* and, for a reconciliation, the saves that had not returned and the
     \* saves that had not created their file when the snapshot was taken
     removed |-> {}, unfinished |-> {}, unopened |-> {}]

\* (mutant) the file name is the extension alone, without the uuid
save_paths_without_uuid(extension, date, uuid4) ==
    LET ext       == normalize_extension(extension)
        filename  == <<"a","u","d","i","o">> \o ext
        date_path == get_date_path(date)
        full_dir  == PathJoin(base_path, date_path)
    IN  [full_dir      |-> full_dir,
         full_path     |-> PathJoin(full_dir, PathOf(filename)),
         relative_path |-> PathStr(PathJoin(date_path, PathOf(filename)))]

\* save_audio_file, lines 161-181: the directory, the file and the identifier
save_paths(extension, date, uuid4) ==
    LET ext       == normalize_extension(extension)
        filename  == uuid4 \o ext
        date_path == get_date_path(date)
        full_dir  == PathJoin(base_path, date_path)
    IN  [full_dir      |-> full_dir,
         full_path     |-> PathJoin(full_dir, PathOf(filename)),
         relative_path |-> PathStr(PathJoin(date_path, PathOf(filename)))]

\* save_audio_file, lines 161-181: uuid4() is drawn and the partition
\* directory is made
save_ensure_directory(f, th, uuid4) ==
    LET p    == save_paths(th.arg.extension, th.arg.date, uuid4)
        made == ensure_directory(f, p.full_dir)
    IN  IF made.ok
        THEN [fs |-> made.fs,
              th |-> [th EXCEPT !.pc = "open", !.full_path = p.full_path.parts,
                                !.relative_path = p.relative_path]]
        ELSE [fs |-> f, th |-> [th EXCEPT !.pc = "done", !.outcome = "StorageError"]]

\* save_audio_file, line 185: open(full_path, 'wb') creates the empty file;
\* when the directory is gone it raises FileNotFoundError, an OSError whose
\* errno is not 28 or 112 (line 202)
save_open(f, th) ==
    LET opened == OpenForWrite(f, th.full_path)
    IN  IF opened.ok
        THEN [fs |-> WriteFile(f, opened.target, <<>>), th |-> [th EXCEPT !.pc = "write"]]
        ELSE [fs |-> f, th |-> [th EXCEPT !.pc = "done", !.outcome = "StorageError"]]

\* save_audio_file, lines 187-190: the bytes are written through the open
\* descriptor and the identifier is returned; an unlink() of the file in
\* between leaves the descriptor writable and the name gone
save_write(f, th) ==
    [fs |-> IF th.full_path \in DOMAIN f.files
            THEN WriteFile(f, th.full_path, th.arg.content) ELSE f,
     th |-> [th EXCEPT !.pc = "done", !.outcome = "returned",
                       !.value = th.relative_path]]

\* delete_audio_file has returned or raised res: an explicit delete is over,
\* the loop of cleanup_orphaned_files (lines 353-359) counts a True, swallows
\* an exception and goes on
delete_returns(th, res) ==
    IF th.op = "reconcile"
    THEN [th EXCEPT !.pc = "next",
                    !.deleted_count = IF res = "True" THEN @ + 1 ELSE @]
    ELSE [th EXCEPT !.pc = "done", !.outcome = res]

\* delete_audio_file(relative_path) is entered, line 260
delete_resolve(f, th, relative_path) ==
    LET r == get_audio_file_path(f, relative_path)
    IN  [fs |-> f,
         th |-> IF r.outcome = "InvalidPathError"
                THEN delete_returns(th, "InvalidPathError")
                ELSE [th EXCEPT !.pc = "exists", !.relative_path = relative_path,
                                !.full_path = r.path]]

\* delete_audio_file, lines 263-265
delete_exists(f, th) ==
    [fs |-> f,
     th |-> IF ~ Exists(f, th.full_path)
            THEN delete_returns(th, "False")
            ELSE [th EXCEPT !.pc = "unlink"]]

\* (mutant) unlink(missing_ok=True): a file that is gone is no error
delete_unlink_missing_ok(f, th) ==
    IF th.full_path \in DOMAIN f.files
    THEN [fs |-> Unlink(f, th.full_path),
          th |-> [th EXCEPT !.pc = "cleanup", !.current = Parent(th.full_path),
                            !.removed = @ \cup {th.full_path}]]
    ELSE [fs |-> f,
          th |-> [th EXCEPT !.pc = "cleanup", !.current = Parent(th.full_path)]]

\* delete_audio_file, lines 267-271: unlink() removes the file, or raises
\* when it is gone (or is a directory), which line 278 turns into StorageError
delete_unlink(f, th) ==
    IF th.full_path \in DOMAIN f.files
    THEN [fs |-> Unlink(f, th.full_path),
          th |-> [th EXCEPT !.pc = "cleanup", !.current = Parent(th.full_path),
                            !.removed = @ \cup {th.full_path}]]
    ELSE [fs |-> f, th |-> delete_returns(th, "StorageError")]

\* _cleanup_empty_directories, lines 291-294 and 298-299: the loop test and
\* the emptiness test of one iteration; line 273 when the loop ends
cleanup_test(f, th) ==
    LET base_resolved == Resolve(f, base_path).parts
    IN  [fs |-> f,
         th |-> IF /\ th.current # base_resolved
                   /\ PathGreater(th.current, base_resolved)
                   /\ th.current \in f.dirs
                   /\ Children(f, th.current) = {}
                THEN [th EXCEPT !.pc = "rmdir"]
                ELSE delete_returns(th, "True")]

\* _cleanup_empty_directories, lines 295-297: rmdir() removes the directory
\* if it is still there and still empty; otherwise it raises, which line 300
\* swallows, and delete_audio_file returns True (line 273)
cleanup_rmdir(f, th) ==
    IF th.current \in f.dirs /\ Children(f, th.current) = {}
    THEN [fs |-> Rmdir(f, th.current),
          th |-> [th EXCEPT !.pc = "cleanup", !.current = Parent(th.current)]]
    ELSE [fs |-> f, th |-> delete_returns(th, "True")]

\* the saves of the other threads that have not returned, and those that
\* have not created their file
UnfinishedSaves(ths) == { s \in DOMAIN ths : ths[s].op = "save" /\ ths[s].pc # "done" }
UnopenedSaves(ths) ==
    { s \in DOMAIN ths : ths[s].op = "save" /\ ths[s].pc \in {"start", "open"} }

\* cleanup_orphaned_files, lines 348-351: the snapshot of the store
reconcile_scan(f, th, ths) ==
    [fs |-> f,
     th |-> [th EXCEPT !.pc = "next",
                       !.stored_files = get_all_stored_files(f, NoFault).value,
                       !.unfinished = UnfinishedSaves(ths),
                       !.unopened = UnopenedSaves(ths)]]

\* (mutant) the store is listed again at each iteration
loop_set_listed_again(f, th) ==
    get_all_stored_files(f, NoFault).value \ th.arg

\* cleanup_orphaned_files, lines 349 and 352: the set the loop iterates
loop_set(f, th) == th.stored_files \ th.arg

NoMore == <<>>

\* cleanup_orphaned_files, lines 352-354 and 361-362: the loop takes the next
\* orphan relative_path and enters delete_audio_file (NoMore: the set is
\* exhausted and the count is returned)
reconcile_next(f, th, relative_path) ==
    IF relative_path = NoMore
    THEN [fs |-> f,
          th |-> [th EXCEPT !.pc = "done", !.outcome = "returned",
                            !.value = th.deleted_count]]
    ELSE delete_resolve(f, [th EXCEPT !.attempted = @ \cup {relative_path}],
                        relative_path)

\* a thread takes a step that leaves r
Steps(t, r) ==
    /\ fs' = r.fs
    /\ threads' = [threads EXCEPT ![t] = r.th]

At(t, op, pc_) ==
    /\ t \in DOMAIN threads
    /\ threads[t].op = op
    /\ threads[t].pc = pc_

InDelete(t, pc_) ==
    /\ t \in DOMAIN threads
    /\ threads[t].op \in {"delete", "reconcile"}
    /\ threads[t].pc = pc_

SaveEnsureDirectory(t) ==
    /\ At(t, "save", "start")
    /\ \E r \in {save_ensure_directory(fs, threads[t], NextUuid)} : Steps(t, r)
    /\ used_uuids' = used_uuids \cup {NextUuid}
    /\ UNCHANGED <<call, issued, blobs>>
    /\ UNCHANGED retryVars

SaveOpen(t) ==
    /\ At(t, "save", "open")
    /\ \E r \in {save_open(fs, threads[t])} : Steps(t, r)
    /\ UNCHANGED <<call, issued, used_uuids, blobs>>
    /\ UNCHANGED retryVars

SaveWrite(t) ==
    /\ At(t, "save", "write")
    /\ \E r \in {save_write(fs, threads[t])} :
        /\ Steps(t, r)
        /\ issued' = issued \cup {r.th.value}
        /\ blobs' = With(blobs, r.th.value, threads[t].arg.content)
    /\ UNCHANGED <<call, used_uuids>>
    /\ UNCHANGED retryVars

\* an explicit delete_audio_file(relative_path)
DeleteResolve(t) ==
    /\ At(t, "delete", "start")
    /\ \E r \in {delete_resolve(fs, threads[t], threads[t].arg)} : Steps(t, r)
    /\ UNCHANGED <<call, issued, used_uuids, blobs>>
    /\ UNCHANGED retryVars

DeleteExists(t) ==
    /\ InDelete(t, "exists")
    /\ \E r \in {delete_exists(fs, threads[t])} : Steps(t, r)
    /\ UNCHANGED <<call, issued, used_uuids, blobs>>
    /\ UNCHANGED retryVars

DeleteUnlink(t) ==
    /\ InDelete(t, "unlink")
    /\ \E r \in {delete_unlink(fs, threads[t])} :
        /\ Steps(t, r)
        /\ blobs' = IF r.th.removed # threads[t].removed
                    THEN Without(blobs, {threads[t].relative_path}) ELSE blobs
    /\ UNCHANGED <<call, issued, used_uuids>>
    /\ UNCHANGED retryVars

CleanupTest(t) ==
    /\ InDelete(t, "cleanup")
    /\ \E r \in {cleanup_test(fs, threads[t])} : Steps(t, r)
    /\ UNCHANGED <<call, issued, used_uuids, blobs>>
    /\ UNCHANGED retryVars

CleanupRmdir(t) ==
    /\ InDelete(t, "rmdir")
    /\ \E r \in {cleanup_rmdir(fs, threads[t])} : Steps(t, r)
    /\ UNCHANGED <<call, issued, used_uuids, blobs>>
    /\ UNCHANGED retryVars

ReconcileScan(t) ==
    /\ At(t, "reconcile", "start")
    /\ \E r \in {reconcile_scan(fs, threads[t], threads)} : Steps(t, r)
    /\ UNCHANGED <<call, issued, used_uuids, blobs>>
    /\ UNCHANGED retryVars

ReconcileNext(t) ==
    /\ At(t, "reconcile", "next")
    /\ \E left \in {loop_set(fs, threads[t]) \ threads[t].attempted} :
        \E relative_path \in (IF left = {} THEN {NoMore} ELSE left) :
            \E r \in {reconcile_next(fs, threads[t], relative_path)} : Steps(t, r)
    /\ UNCHANGED <<call, issued, used_uuids, blobs>>
    /\ UNCHANGED retryVars

\* a second blob saved earlier (uuid4() gave the second value of UuidSeq), in
\* the partition of 2024-12-09
Blob_B == <<"2","0","2","4","/","1","2","/","0","9","/","9","c","1","d","-","4","e",".","m","p","3">>
P_2024_12 == P_2024 \o << <<"1","2">> >>
P_part_B  == P_2024_12 \o << <<"0","9">> >>
LayoutTwoBlobs ==
    [dirs |-> {P_root, P_s, P_base, P_2024, P_2024_01, P_part_A, P_2024_12, P_part_B},
     files |-> (BlobPath(Blob_A) :> Bytes1) @@ (BlobPath(Blob_B) :> Bytes2),
     links |-> NoLinks]

\* the calls thread t may make: a save of its own bytes into the partition
\* of Blob_A, a delete of Blob_A, a reconciliation against a reference set
SaveArg(t) ==
    [content |-> <<10 + t>>, extension |-> <<"m","p","3">>,
     date |-> [year |-> 2024, month |-> 1, day |-> 15]]
Programs(t) ==
    << NewThread("save", SaveArg(t)),
       NewThread("delete", Blob_A),
       NewThread("reconcile", {}),
       NewThread("reconcile", {Blob_B}) >>

\* the threads are interchangeable: one assignment of calls to threads for
\* each multiset of calls
ThreadPrograms ==
    { [t \in Threads |-> Programs(t)[k[t]]] :
        k \in { kk \in [Threads -> DOMAIN Programs(1)] :
                  \A t1, t2 \in Threads : t1 < t2 => kk[t1] <= kk[t2] } }

-----------------------------------------------------------------------------
(* Properties of storage calls in progress at the same time *)

\* the files the threads' unlink() calls have removed
RemovedFiles == UNION { threads[t].removed : t \in DOMAIN threads }

SaveReturned(t) == threads[t].op = "save" /\ threads[t].outcome = "returned"

\* C21: any two saves that returned (same extension, same explicit date, one
\* after the other or interleaved) returned distinct identifiers naming
\* distinct files; the file of every save that returned holds that save's own
\* bytes, and the file of every blob saved earlier still holds its bytes, as
\* long as no delete has removed it.
C21_CollisionFreedom ==
    /\ \A t1, t2 \in DOMAIN threads :
           (t1 # t2 /\ SaveReturned(t1) /\ SaveReturned(t2)) =>
               /\ threads[t1].value # threads[t2].value
               /\ threads[t1].full_path # threads[t2].full_path
    /\ \A t \in DOMAIN threads :
           (SaveReturned(t) /\ threads[t].full_path \notin RemovedFiles) =>
               /\ threads[t].full_path \in DOMAIN fs.files
               /\ fs.files[threads[t].full_path] = threads[t].arg.content
    /\ \A p \in DOMAIN LayoutTwoBlobs.files :
           (threads # NoThreads /\ p \notin RemovedFiles) =>
               /\ p \in DOMAIN fs.files
               /\ fs.files[p] = LayoutTwoBlobs.files[p]

\* two saves have returned and both files are there
C21_Witness ==
    \E t1, t2 \in DOMAIN threads :
        /\ t1 # t2
        /\ SaveReturned(t1) /\ SaveReturned(t2)
        /\ threads[t1].arg.extension = threads[t2].arg.extension
        /\ threads[t1].arg.date = threads[t2].arg.date
        /\ threads[t1].arg.content # threads[t2].arg.content
        /\ {threads[t1].full_path, threads[t2].full_path} \subseteq DOMAIN fs.files

-----------------------------------------------------------------------------
(* openai_service.py: the module-level transcribe_audio is decorated with    *)
(* retry_with_exponential_backoff(3, [1, 2, 4]) (line 131) and calls         *)
(* OpenAIService.transcribe_audio (line 168), which is decorated with the    *)
(* same arguments (line 38): a call runs the wrapper of the function around  *)
(* the wrapper of the method around the Whisper API request.                 *)

\* wrapper, lines 58-105: func raised e at loop index att; the wrapper lets
\* an exception propagate, or sleeps and goes on to the next iteration
wrapper_except(att, e) ==
    IF propagates_immediately(e)
    THEN [kind |-> "raise", error |-> e, delay |-> 0]
    ELSE IF attempts_remaining(att) > 0
    THEN IF IndexInRange(backoff_delays, delay_index(att))
         THEN [kind |-> "retry", error |-> NoError,
               delay |-> ListItem(backoff_delays, delay_index(att))]
         ELSE [kind |-> "raise", error |-> IndexError, delay |-> 0]
    ELSE [kind |-> "raise", error |-> e, delay |-> 0]

\* the wrapper around func has caught err at its loop index outer: both
\* wrappers' state after it
outer_except(th, err) ==
    LET w == wrapper_except(th.outer, err)
    IN  IF w.kind = "retry"
        THEN [th EXCEPT !.outer = @ + 1, !.outer_last = err,
                        !.inner = 0, !.inner_last = NoError,
                        !.sleeps = Append(@, w.delay)]
        ELSE [th EXCEPT !.pc = "raised", !.outer_last = err, !.error = w.error]

\* the request of OpenAIService.transcribe_audio (line 103) raised e, which
\* line 127 re-raises into the method's wrapper
request_raises(th, e) ==
    LET w == wrapper_except(th.inner, e)
    IN  IF w.kind = "retry"
        THEN [th EXCEPT !.requests = @ + 1, !.inner = @ + 1, !.inner_last = e,
                        !.sleeps = Append(@, w.delay)]
        ELSE outer_except([th EXCEPT !.requests = @ + 1, !.inner_last = e], w.error)

\* lines 103-112 and 168-173: the request returns, and so do both wrappers
request_returns(th, v) ==
    [th EXCEPT !.requests = @ + 1, !.pc = "returned", !.value = v]

msg_not_found == <<"A","u","d","i","o"," ","f","i","l","e"," ","n","o","t"," ","f","o","u","n","d",":"," ","a",".","w","a","v">>

\* lines 76-81: the audio file does not exist, no request is made
file_not_found(th) ==
    outer_except(th, [type |-> "FileNotFoundError", msg |-> msg_not_found, id |-> 0])

\* transcribe_audio(audio_file) is entered; file_exists: the file is there
NewTranscription(file_exists) ==
    [op |-> "transcribe", pc |-> "running", file_exists |-> file_exists,
     outer |-> 0, outer_last |-> NoError, inner |-> 0, inner_last |-> NoError,
     requests |-> 0, sleeps |-> <<>>, value |-> NoValue, error |-> NoError]

Transcribing(t) ==
    /\ t \in DOMAIN threads
    /\ threads[t].op = "transcribe"
    /\ threads[t].pc = "running"

RequestReturns(t, v) ==
    /\ Transcribing(t)
    /\ threads[t].file_exists
    /\ threads' = [threads EXCEPT ![t] = request_returns(threads[t], v)]
    /\ UNCHANGED <<retryVars, storeVars>>

RequestRaises(t, type, msg) ==
    /\ Transcribing(t)
    /\ threads[t].file_exists
    /\ \E e \in {[type |-> type, msg |-> msg, id |-> threads[t].requests + 1]} :
        threads' = [threads EXCEPT ![t] = request_raises(threads[t], e)]
    /\ UNCHANGED <<retryVars, storeVars>>

AudioFileNotFound(t) ==
    /\ Transcribing(t)
    /\ ~ threads[t].file_exists
    /\ threads' = [threads EXCEPT ![t] = file_not_found(threads[t])]
    /\ UNCHANGED <<retryVars, storeVars>>

\* C22 (as claimed): one call of the module-level transcribe_audio makes at
\* most 3 Whisper API requests and sleeps at most twice, 1 s and then 2 s,
\* whatever the requests raise.
C22_SingleRetryLoop ==
    \A t \in DOMAIN threads :
        threads[t].op = "transcribe" =>
            /\ threads[t].requests <= 3
            /\ threads[t].sleeps \in { <<>>, <<1>>, <<1, 2>> }

-----------------------------------------------------------------------------
(* delete_audio_file when the directory cleanup fails *)

\* the failures of the operating system during the cleanup: while the
\* directory is listed (iterdir) or while it is removed (rmdir)
EACCES_iterdir == [class |-> "builtins.PermissionError", errno |-> 13, at |-> "iterdir"]
EIO_rmdir      == [class |-> "builtins.OSError", errno |-> 5, at |-> "rmdir"]
CleanupFaults  == {EACCES_iterdir, EIO_rmdir}

\* (mutant) only a permission failure is swallowed
cleanup_except_permission_only(e) == IsInstance(e.class, "builtins.PermissionError")

\* _cleanup_empty_directories, lines 300-302: the exceptions it swallows
cleanup_except(e) == IsInstance(e.class, "Exception")

\* _cleanup_empty_directories, lines 290-299, when the system call on the
\* directory failing fails with fault: the filesystem it leaves and the
\* exception raised inside its try block (NoFault: none)
RECURSIVE cleanup_empty_directories_io(_, _, _, _)
cleanup_empty_directories_io(f, current, failing, fault) ==
    LET base_resolved == Resolve(f, base_path).parts
    IN  IF current # base_resolved /\ PathGreater(current, base_resolved)
        THEN IF current \in f.dirs /\ current = failing
                /\ (fault.at = "iterdir" \/ Children(f, current) = {})
             THEN [fs |-> f, raised |-> fault]
             ELSE IF current \in f.dirs /\ Children(f, current) = {}
             THEN cleanup_empty_directories_io(Rmdir(f, current), Parent(current),
                                               failing, fault)
             ELSE [fs |-> f, raised |-> NoFault]
        ELSE [fs |-> f, raised |-> NoFault]

\* delete_audio_file when the cleanup's system call on the directory failing
\* fails with fault
delete_audio_file_cleanup_io(f, relative_path, failing, fault) ==
    LET r == get_audio_file_path(f, relative_path)
    IN  IF r.outcome = "InvalidPathError"
        THEN [outcome |-> "InvalidPathError", fs |-> f]
        ELSE IF ~ Exists(f, r.path)
        THEN [outcome |-> "False", fs |-> f]
        ELSE IF r.path \in DOMAIN f.files
        THEN LET c == cleanup_empty_directories_io(Unlink(f, r.path), Parent(r.path),
                                                   failing, fault)
             IN  IF c.raised = NoFault \/ cleanup_except(c.raised)
                 THEN [outcome |-> "True", fs |-> c.fs]
                 ELSE [outcome |-> delete_except(c.raised), fs |-> c.fs]
        ELSE [outcome |-> "StorageError", fs |-> f]

\* the directories between StorageRoot and the file of ident
PartitionDirs(ident) ==
    { SubSeq(BlobPath(ident), 1, k) :
        k \in (Len(base_path.parts) + 1)..(Len(BlobPath(ident)) - 1) }

\* delete_audio_file(ident) when the cleanup fails with fault at failing
DeleteAudioFileCleanupIO(ident, failing, fault) ==
    /\ call = NoCall
    /\ \E r \in {delete_audio_file_cleanup_io(fs, ident, failing, fault)} :
        /\ call' = [op |-> "delete", arg |-> ident, outcome |-> r.outcome,
                    path |-> failing, value |-> <<>>, before |-> fs,
                    fault |-> fault]
        /\ fs' = r.fs
        /\ blobs' = IF r.outcome = "True" THEN Without(blobs, {ident}) ELSE blobs
    /\ UNCHANGED <<issued, used_uuids>>
    /\ UNCHANGED <<retryVars, threads>>

\* C23: when delete has removed the file and the listing or the removal of a
\* partition directory then fails, delete still returns True, raises
\* nothing, and leaves the file removed; nothing else is lost, only
\* directories are gone.
C23_CleanupIsBestEffort ==
    (/\ call.op = "delete"
     /\ call.fault \in CleanupFaults
     /\ BlobPath(call.arg) \in DOMAIN call.before.files) =>
        /\ call.outcome = "True"
        /\ BlobPath(call.arg) \notin DOMAIN fs.files
        /\ fs.files = Unlink(call.before, BlobPath(call.arg)).files
        /\ fs.links = call.before.links
        /\ fs.dirs \subseteq call.before.dirs

\* the cleanup failed on a directory it was about to remove: the file is
\* gone and the empty directory is still there
C23_Witness ==
    /\ call.op = "delete"
    /\ call.fault = EIO_rmdir
    /\ call.outcome = "True"
    /\ BlobPath(call.arg) \in DOMAIN call.before.files
    /\ BlobPath(call.arg) \notin DOMAIN fs.files
    /\ call.path \in fs.dirs
    /\ Children(fs, call.path) = {}

-----------------------------------------------------------------------------
(* The frame of delete's directory cleanup *)

\* the directories and the files a delete has removed
RemovedDirs == call.before.dirs \ fs.dirs
LostFiles == (DOMAIN call.before.files) \ (DOMAIN fs.files)

\* C24 (as claimed): a delete removes, besides the file it resolved, only
\* directories strictly below StorageRoot, each of them empty when it was
\* removed (whatever it held before is gone with this delete); StorageRoot
\* still exists, and every other file is still present with its bytes.
C24_CleanupBounded ==
    call.op = "delete" =>
        /\ \A d \in RemovedDirs :
               /\ WithinDir(d, P_base) /\ d # P_base
               /\ Children(call.before, d) \subseteq RemovedDirs \cup LostFiles
        /\ P_base \in fs.dirs
        /\ Cardinality(LostFiles) <= 1
        /\ \A p \in DOMAIN fs.files :
               p \in DOMAIN call.before.files /\ fs.files[p] = call.before.files[p]
        /\ fs.links = call.before.links

-----------------------------------------------------------------------------
(* Calls through one wrapped function, one after the other and at the same  *)
(* time.  max_attempts and backoff_delays belong to the decorator (they are *)
(* shared and never assigned after decoration); attempt and last_exception  *)
(* are locals of wrapper, made anew by each call.                            *)

\* the callers of the wrapped function
Callers == {1, 2}

\* (class name, message) of the exceptions func raises in these calls: a
\* transient one by class, a transient one by message, a permanent one and
\* an unclassified one
CallErrors ==
    { <<"RateLimitError", msg_rate_limit>>,
      <<"Exception", msg_timed_out>>,
      <<"AuthenticationError", msg_timed_out>>,
      <<"ValueError", msg_bad_value>> }

\* a caller that has not called yet
NoCallYet ==
    [op |-> "call", pc |-> "idle", previous |-> "none",
     attempt |-> 0, last_exception |-> NoError,
     invocations |-> 0, sleeps |-> <<>>, ended |-> "none",
     value |-> NoValue, error |-> NoError]

\* (mutant) the loop variable outlives the call
call_entry_keeps_attempt(th) ==
    [th EXCEPT !.pc = "running", !.previous = th.ended,
               !.last_exception = NoError,
               !.invocations = 0, !.sleeps = <<>>, !.ended = "none",
               !.value = NoValue, !.error = NoError]

\* wrapper, lines 42-45: a call is entered; last_exception = None and the
\* loop starts at attempt 0
call_entry(th) ==
    [th EXCEPT !.pc = "running", !.previous = th.ended,
               !.attempt = 0, !.last_exception = NoError,
               !.invocations = 0, !.sleeps = <<>>, !.ended = "none",
               !.value = NoValue, !.error = NoError]

\* wrapper, lines 48-56
call_returns(th, v) ==
    [th EXCEPT !.pc = "returned", !.invocations = @ + 1, !.value = v,
               !.ended = "succeeded"]

\* wrapper, lines 58-105
call_raises(th, e) ==
    LET w == wrapper_except(th.attempt, e)
    IN  IF w.kind = "retry"
        THEN [th EXCEPT !.invocations = @ + 1, !.last_exception = e,
                        !.attempt = @ + 1, !.sleeps = Append(@, w.delay)]
        ELSE [th EXCEPT !.pc = "raised", !.invocations = @ + 1,
                        !.last_exception = e, !.error = w.error,
                        !.ended = IF propagates_immediately(e)
                                  THEN "failed" ELSE "exhausted"]

\* wrapper, lines 107-111: the loop is over without a return or a raise
call_loop_over(th) ==
    IF th.last_exception # NoError
    THEN [th EXCEPT !.pc = "raised", !.error = th.last_exception, !.ended = "exhausted"]
    ELSE [th EXCEPT !.pc = "returned", !.value = None, !.ended = "succeeded"]

Calling(t) ==
    /\ t \in DOMAIN threads
    /\ threads[t].op = "call"
    /\ threads[t].pc = "running"

CallEnters(t) ==
    /\ t \in DOMAIN threads
    /\ threads[t].op = "call"
    /\ threads[t].pc \in {"idle", "returned", "raised"}
    /\ threads' = [threads EXCEPT ![t] = call_entry(threads[t])]
    /\ UNCHANGED <<retryVars, storeVars>>

FuncReturns(t, v) ==
    /\ Calling(t)
    /\ threads[t].attempt < max_attempts
    /\ threads' = [threads EXCEPT ![t] = call_returns(threads[t], v)]
    /\ UNCHANGED <<retryVars, storeVars>>

FuncRaises(t, type, msg) ==
    /\ Calling(t)
    /\ threads[t].attempt < max_attempts
    /\ \E e \in {[type |-> type, msg |-> msg, id |-> threads[t].invocations + 1]} :
        threads' = [threads EXCEPT ![t] = call_raises(threads[t], e)]
    /\ UNCHANGED <<retryVars, storeVars>>

CallLoopOver(t) ==
    /\ Calling(t)
    /\ threads[t].attempt >= max_attempts
    /\ threads' = [threads EXCEPT ![t] = call_loop_over(threads[t])]
    /\ UNCHANGED <<retryVars, storeVars>>

\* C25: whatever the caller's earlier calls did and whatever the other
\* caller's call is doing, a call in its loop has made as many invocations as
\* it counts attempts, has slept exactly the first entries of the schedule,
\* one per failed attempt of its own, and still has the rest of max_attempts;
\* a call that ended made at most max_attempts invocations, exactly
\* max_attempts when it ended by exhaustion.
C25_NoStateAcrossCalls ==
    \A t \in DOMAIN threads :
        (threads[t].op = "call" /\ max_attempts >= 1) =>
            /\ threads[t].pc = "running" =>
                   /\ threads[t].invocations = threads[t].attempt
                   /\ threads[t].attempt < max_attempts
            /\ threads[t].pc \in {"returned", "raised"} =>
                   /\ threads[t].invocations = threads[t].attempt + 1
                   /\ threads[t].invocations <= max_attempts
                   /\ threads[t].ended = "exhausted" =>
                          threads[t].invocations = max_attempts
            /\ threads[t].sleeps = ScheduledSleeps(threads[t].attempt)

\* a caller whose earlier call exhausted its attempts is in the loop of a new
\* call after one failed attempt and the first delay of the schedule, while
\* the other caller's call has failed twice and slept the first two delays
C25_Witness ==
    \E t1, t2 \in DOMAIN threads :
        /\ t1 # t2
        /\ threads[t1].op = "call" /\ threads[t2].op = "call"
        /\ threads[t1].previous = "exhausted"
        /\ threads[t1].pc = "running"
        /\ threads[t1].sleeps = <<1>>
        /\ threads[t2].pc = "running"
        /\ threads[t2].sleeps = <<1, 2>>

-----------------------------------------------------------------------------
(* Termination of a call through the wrapper *)

\* the call has ended
Ended == pc \in {"returned", "raised"}

\* the three ways a call ends: func returned a value; func raised an error
\* classified permanent or not classified; func raised a transient error at
\* the last of max_attempts invocations
EndedInSuccess ==
    /\ pc = "returned"
    /\ log # <<>>
    /\ log[Len(log)].kind = "return"
    /\ result = log[Len(log)].value
EndedInFailure ==
    /\ pc = "raised"
    /\ Raised(Len(log))
    /\ raised = log[Len(log)].error
    /\ (ClassifiedPermanent(raised) \/ Unclassified(raised))
EndedInExhaustion ==
    /\ pc = "raised"
    /\ Raised(Len(log))
    /\ raised = log[Len(log)].error
    /\ ClassifiedTransient(raised)
    /\ calls = max_attempts

\* C26 (as claimed): with max_attempts >= 1, a call in its loop has an
\* invocation left to make, and a call that has ended has ended in success,
\* in a permanent or unclassified failure or in exhaustion, after at least 1
\* and at most max_attempts invocations and at most max_attempts - 1 sleeps.
C26_EndsInOneOfThree ==
    max_attempts >= 1 =>
        /\ pc = "running" => calls < max_attempts
        /\ Ended =>
               /\ EndedInSuccess \/ EndedInFailure \/ EndedInExhaustion
               /\ 1 <= calls /\ calls <= max_attempts
               /\ Len(sleeps) <= max_attempts - 1

\* the part of C26 about termination alone: every call ends, provided the
\* wrapper keeps taking steps (every invocation and every sleep returns)
C26_Terminates == <>Ended

\* C27 (as claimed): without I/O failures, a save that runs while another
\* thread deletes (or reconciles away) a different blob of the same date
\* partition returns an identifier in every interleaving, and its file holds
\* the source bytes as long as no delete has removed that very file.
C27_SaveIndependentOfDelete ==
    \A t \in DOMAIN threads :
        (threads[t].op = "save" /\ threads[t].pc = "done") =>
            /\ threads[t].outcome = "returned"
            /\ threads[t].full_path \notin RemovedFiles =>
                   /\ threads[t].full_path \in DOMAIN fs.files
                   /\ fs.files[threads[t].full_path] = threads[t].arg.content

-----------------------------------------------------------------------------
(* get_audio_file_path called through the retry wrapper *)

\* get_audio_file_path, lines 224 and 243: f"Invalid path: {relative_path}"
invalid_path_message(relative_path) ==
    <<"I","n","v","a","l","i","d"," ","p","a","t","h",":"," ">> \o relative_path

\* the identifiers handed to the wrapped get_audio_file_path: rejected ones
\* (a leading "../" or "/") that name a file or hold a word, and d/f
IdWords == { <<"f">>, tok_timeout, tok_429, tok_rate_limit, tok_401, tok_400,
             <<"c","o","n","n","e","c","t","i","o","n","-","e","r","r","o","r">> }
RetriedIds ==
    { <<".", ".", "/">> \o w : w \in IdWords } \cup { <<"/">> \o w : w \in IdWords }
    \cup { <<"d", "/", "f">> }

\* the wrapped call's argument is rejected: func raises InvalidPathError
RetriedResolveRaises ==
    /\ call.op = "resolve"
    /\ get_audio_file_path(fs, call.arg).outcome = "InvalidPathError"
    /\ AttemptRaises("InvalidPathError", invalid_path_message(call.arg))

\* the wrapped call's argument is resolved: func returns the path
RetriedResolveReturns ==
    /\ call.op = "resolve"
    /\ get_audio_file_path(fs, call.arg).outcome = "path"
    /\ AttemptReturns(get_audio_file_path(fs, call.arg).path)

Reconcilers == { t \in DOMAIN threads : threads[t].op = "reconcile" }
RECURSIVE SumCounts(_)
SumCounts(S) ==
    IF S = {} THEN 0
    ELSE LET t == CHOOSE x \in S : TRUE
         IN  threads[t].deleted_count + SumCounts(S \ {t})

\* C29: no file is removed by two threads; a reconciliation between two
\* deletes has counted exactly the files its own unlink() calls removed; a
\* reconciliation never raises, and when it has returned it has gone through
\* all of its orphans and returned its count; when all reconciliations have
\* returned, their counts add up to the number of files they removed.
C29_NoDoubleCount ==
    /\ \A t1, t2 \in DOMAIN threads :
           t1 # t2 => threads[t1].removed \cap threads[t2].removed = {}
    /\ \A t \in Reconcilers :
           /\ threads[t].pc \in {"next", "done"} =>
                  threads[t].deleted_count = Cardinality(threads[t].removed)
           /\ threads[t].outcome \in {"none", "returned"}
           /\ threads[t].pc = "done" =>
                  /\ threads[t].outcome = "returned"
                  /\ threads[t].value = threads[t].deleted_count
                  /\ threads[t].attempted = loop_set(fs, threads[t])
    /\ (\A t \in Reconcilers : threads[t].pc = "done") =>
           SumCounts(Reconcilers)
               = Cardinality(UNION { threads[t].removed : t \in Reconcilers })

\* two reconciliations took the same two orphans and went through both; each
\* removed one of them and lost the race for the other, and both returned 1
C29_Witness ==
    \E t1, t2 \in Reconcilers :
        /\ t1 # t2
        /\ threads[t1].pc = "done" /\ threads[t2].pc = "done"
        /\ threads[t1].attempted = {Blob_A, Blob_B}
        /\ threads[t2].attempted = {Blob_A, Blob_B}
        /\ threads[t1].removed = {BlobPath(Blob_A)}
        /\ threads[t2].removed = {BlobPath(Blob_B)}
        /\ threads[t1].value = 1 /\ threads[t2].value = 1

\* C30 (as claimed): a reconciliation calls delete only for identifiers of its
\* own snapshot that are not in its reference set, and it never removes the
\* file of a save that had not returned when the snapshot was taken.
C30_SavedAfterSnapshotKept ==
    \A r \in Reconcilers :
        /\ threads[r].attempted \subseteq threads[r].stored_files \ threads[r].arg
        /\ \A s \in threads[r].unfinished :
               SaveReturned(s) => threads[s].full_path \notin threads[r].removed

\* C30 (amended): a reconciliation calls delete only for identifiers of its
\* own snapshot that are not in its reference set, and it never removes the
\* file of a save that had not created its file when the snapshot was taken.
C30_CreatedAfterSnapshotKept ==
    \A r \in Reconcilers :
        /\ threads[r].attempted \subseteq threads[r].stored_files \ threads[r].arg
        /\ \A s \in threads[r].unopened :
               threads[s].full_path \notin threads[r].removed

\* a reconciliation has removed a file and returned; a save that had not
\* created its file at the snapshot has returned since, and its file is there
C30_Witness ==
    \E r \in Reconcilers :
        /\ threads[r].pc = "done"
        /\ threads[r].removed # {}
        /\ \E s \in threads[r].unopened :
               /\ SaveReturned(s)
               /\ threads[s].full_path \in DOMAIN fs.files
               /\ fs.files[threads[s].full_path] = threads[s].arg.content

-----------------------------------------------------------------------------
(* Specifications *)

\* no storage call is made
StoreIdle ==
    /\ fs = NoFs
    /\ call = NoCall
    /\ issued = {}
    /\ used_uuids = {}
    /\ blobs = NoBlobs

\* no call goes through the retry wrapper
RetryIdle ==
    /\ max_attempts = default_max_attempts
    /\ backoff_delays = default_backoff_delays
    /\ pc = "idle"
    /\ attempt = 0
    /\ last_exception = NoError
    /\ calls = 0
    /\ sleeps = <<>>
    /\ log = <<>>
    /\ result = NoValue
    /\ raised = NoError

\* no calls run side by side
ThreadsIdle == threads = NoThreads

\* one call through the retry wrapper, for every override of its arguments
SpecRetryInit == RetryInit /\ StoreIdle /\ ThreadsIdle
SpecRetry == SpecRetryInit /\ [][RetryNext]_vars

\* resolve and delete of arbitrary identifier strings, over the layouts
ResolveInit ==
    /\ fs \in Layouts
    /\ call = NoCall
    /\ issued = {}
    /\ used_uuids = {}
    /\ blobs = NoBlobs

ResolveNext ==
    \/ \E ident \in IdStrings : GetAudioFilePath(ident)
    \/ \E ident \in IdStrings : DeleteAudioFile(ident)
    \/ Return

SpecResolveInit == ResolveInit /\ RetryIdle /\ ThreadsIdle
SpecResolve == SpecResolveInit /\ [][ResolveNext]_vars

\* saves with arbitrary extension strings, then resolve and delete of the
\* identifiers save returned
SaveInit ==
    /\ fs = LayoutPlain
    /\ call = NoCall
    /\ issued = {}
    /\ used_uuids = {}
    /\ blobs = NoBlobs

SaveNext ==
    \/ \E content \in Contents, extension \in ExtStrings, date \in Dates,
          uuid4 \in Uuid4Strings : SaveAudioFile(content, extension, date, uuid4)
    \/ \E ident \in issued : GetAudioFilePath(ident)
    \/ \E ident \in issued : DeleteAudioFile(ident)
    \/ Return

SpecSaveInit == SaveInit /\ RetryIdle /\ ThreadsIdle
SpecSave == SpecSaveInit /\ [][SaveNext]_vars

\* the Blob Store and the Reconciler without I/O failures, from the empty
\* StorageRoot: saves, then resolve, delete, listing and reconciliation of the
\* identifiers save returned (and of one it never returned)
StoreInit ==
    /\ fs = EmptyStore
    /\ call = NoCall
    /\ issued = {}
    /\ used_uuids = {}
    /\ blobs = NoBlobs

StoreNext ==
    \/ \E content \in Contents, extension \in StoreExts, date \in Dates :
          SaveAudioFileIO(content, extension, date, NextUuid, NoFault, 0)
    \/ \E ident \in issued : GetAudioFilePath(ident)
    \/ \E ident \in issued \cup {NeverSaved} : DeleteAudioFile(ident)
    \/ GetAllStoredFiles(NoFault)
    \/ \E database_files \in SUBSET (issued \cup {NeverSaved}) :
          CleanupOrphanedFiles(database_files, {}, NoFault, NoFault)
    \/ Return

SpecStoreInit == StoreInit /\ RetryIdle /\ ThreadsIdle
SpecStore == SpecStoreInit /\ [][StoreNext]_vars

\* the Blob Store and the Reconciler under I/O failures, from a store that
\* holds a blob saved earlier
FaultsInit ==
    /\ fs \in StoreLayouts
    /\ call = NoCall
    /\ issued = {Blob_A}
    /\ used_uuids = {UuidSeq[1]}
    /\ blobs = (Blob_A :> Bytes1)

FaultsNext ==
    \/ \E content \in {Bytes2}, extension \in {<<"m","p","3">>}, date \in Dates,
          fault \in Faults, written \in 0..1 :
          SaveAudioFileIO(content, extension, date, NextUuid, fault, written)
    \/ \E ident \in issued, fault \in UnlinkFaults : DeleteAudioFileIO(ident, fault)
    \/ \E ident \in issued, fault \in CleanupFaults :
          \E failing \in PartitionDirs(ident) :
              DeleteAudioFileCleanupIO(ident, failing, fault)
    \/ \E scan_fault \in {NoFault, EIO} : GetAllStoredFiles(scan_fault)
    \/ \E database_files \in SUBSET issued, failing \in AtMostOne(issued),
          fault \in {EACCES}, scan_fault \in {NoFault, EIO} :
          CleanupOrphanedFiles(database_files, failing, fault, scan_fault)
    \/ Return

SpecFaultsInit == FaultsInit /\ RetryIdle /\ ThreadsIdle
SpecFaults == SpecFaultsInit /\ [][FaultsNext]_vars


\* storage calls of several threads at the same time, without I/O failures,
\* on a store that holds two blobs saved earlier
ConcInit ==
    /\ fs = LayoutTwoBlobs
    /\ call = NoCall
    /\ issued = {Blob_A, Blob_B}
    /\ used_uuids = {UuidSeq[1], UuidSeq[2]}
    /\ blobs = (Blob_A :> Bytes1) @@ (Blob_B :> Bytes2)
    /\ threads \in ThreadPrograms

ConcNext ==
    \/ \E t \in Threads : SaveEnsureDirectory(t)
    \/ \E t \in Threads : SaveOpen(t)
    \/ \E t \in Threads : SaveWrite(t)
    \/ \E t \in Threads : DeleteResolve(t)
    \/ \E t \in Threads : DeleteExists(t)
    \/ \E t \in Threads : DeleteUnlink(t)
    \/ \E t \in Threads : CleanupTest(t)
    \/ \E t \in Threads : CleanupRmdir(t)
    \/ \E t \in Threads : ReconcileScan(t)
    \/ \E t \in Threads : ReconcileNext(t)

SpecConcInit == ConcInit /\ RetryIdle
SpecConc == SpecConcInit /\ [][ConcNext]_vars

\* one call of the module-level transcribe_audio
NestedInit ==
    threads \in { (1 :> NewTranscription(file_exists)) : file_exists \in BOOLEAN }

NestedNext ==
    \/ \E v \in OpValues : RequestReturns(1, v)
    \/ \E err \in OpErrors : RequestRaises(1, err[1], err[2])
    \/ AudioFileNotFound(1)

SpecNestedInit == NestedInit /\ RetryIdle /\ StoreIdle
SpecNested == SpecNestedInit /\ [][NestedNext]_vars

\* calls through one wrapped function by two callers; the decorator's
\* max_attempts is the default or 0
CallsInit ==
    /\ max_attempts \in {0, default_max_attempts}
    /\ backoff_delays = default_backoff_delays
    /\ pc = "idle"
    /\ attempt = 0
    /\ last_exception = NoError
    /\ calls = 0
    /\ sleeps = <<>>
    /\ log = <<>>
    /\ result = NoValue
    /\ raised = NoError
    /\ threads = [t \in Callers |-> NoCallYet]

CallsNext ==
    \/ \E t \in Callers : CallEnters(t)
    \/ \E t \in Callers, v \in OpValues : FuncReturns(t, v)
    \/ \E t \in Callers, err \in CallErrors : FuncRaises(t, err[1], err[2])
    \/ \E t \in Callers : CallLoopOver(t)

SpecCallsInit == CallsInit /\ StoreIdle
SpecCalls == SpecCallsInit /\ [][CallsNext]_vars

\* one call through the retry wrapper when every invocation of func and every
\* sleep returns: the wrapper is never stopped for good
SpecRetryFair == SpecRetryInit /\ [][RetryNext]_vars /\ WF_vars(RetryNext)

\* one call of get_audio_file_path through the retry wrapper, for every
\* override of the decorator's arguments
RetryResolveInit ==
    /\ fs = LayoutPlain
    /\ call \in { [NoCall EXCEPT !.op = "resolve", !.arg = ident] : ident \in RetriedIds }
    /\ issued = {}
    /\ used_uuids = {}
    /\ blobs = NoBlobs

RetryResolveNext ==
    \/ RetriedResolveRaises
    \/ RetriedResolveReturns
    \/ LoopExhausted

SpecRetryResolveInit == RetryInit /\ RetryResolveInit /\ ThreadsIdle
SpecRetryResolve == SpecRetryResolveInit /\ [][RetryResolveNext]_vars

=============================================================================
